---- MODULE Spec2Model ----
(***************************************************************************)
(* Camera-trap data package conversion (camtrapdp_convert).                *)
(*                                                                         *)
(* Part I  : scripts/merge_labels.py  -- the Observation Reconciler        *)
(*           (human-merge pass, best-detection index, AI-merge pass).      *)
(* Part II : scripts/link_media_by_serial.py -- the Serial-to-Deployment   *)
(*           Linker.                                                       *)
(*                                                                         *)
(* CSV cells are strings.  classificationTimestamp is the one cell that    *)
(* is modelled as a number: 0 stands for the empty cell and n >= 1 for the *)
(* UTC second at which datetime.utcnow() was read.                         *)
(***************************************************************************)
EXTENDS Integers, Sequences, FiniteSets, TLC

VARIABLES
    \* ---- merge_labels.py ----
    observations,            \* the observations.csv file on disk
    obs_rows,                \* main(): rows in memory (also what is written to --out)
    mpc,                     \* main(): position  idle | human | ai | crashed
    labLeft,                 \* label rows of the labels file not yet iterated
    lab,                     \* the label row of the current/last loop iteration
    aiLeft,                  \* rows of the AI file not yet iterated
    ai_by_media,             \* mediaID -> best AI row
    ai_threshold,            \* args.ai_threshold, in hundredths
    j,                       \* AI loop: index of the next observation row
    updated_human, updated_ai, skipped_lowconf, skipped_human_override, missing_ai,
    now                      \* datetime.utcnow(), in seconds

mergeVars == <<observations, obs_rows, mpc, labLeft, lab, aiLeft, ai_by_media, ai_threshold, j,
               updated_human, updated_ai, skipped_lowconf,
               skipped_human_override, missing_ai, now>>

VARIABLES
    \* ---- link_media_by_serial.py ----
    lpc,                     \* main(): position  idle | loop | done | crashed
    by_serial,               \* serial -> list of candidate deployments
    meta_idx,                \* filePath -> EXIF map of media_metadata.json
    mediaLeft,               \* rows of media.csv not yet iterated
    row,                     \* the media row of the current/last loop iteration, as read
    written,                 \* what w.writerow wrote for it (NoMedia when nothing)
    total, linked, warn_missing_serial, warn_ambiguous

linkVars == <<lpc, by_serial, meta_idx, mediaLeft, row, written,
              total, linked, warn_missing_serial, warn_ambiguous>>

VARIABLES
    \* ---- merge_labels.py run on whole files, twice or more ----
    re_labels,               \* the labels file, as a sequence of rows
    re_ai,                   \* the AI detections file, as a sequence of rows
    re_th,                   \* --ai-threshold, in hundredths
    re_table,                \* observations.csv
    re_prev,                 \* observations.csv before the last run
    re_index,                \* ai_by_media as the last run built it
    re_crashed,              \* the last run ended in an uncaught exception
    re_runs                  \* runs so far

rerunVars == <<re_labels, re_ai, re_th, re_table, re_prev, re_index, re_crashed, re_runs>>

VARIABLES
    \* ---- build_deployments.py: the time functions, called cell by cell ----
    tn_date,                 \* the date cell
    tn_time,                 \* the time cell
    tn_val,                  \* the row's offset cell
    tn_hint,                 \* the hint taken from the header
    tn_default,              \* default_hint
    tn_eod,                  \* end_of_day_if_none
    tn_offset,               \* what normalize_offset returned
    tn_out,                  \* the timestamp written, or the ValueError raised
    tn_pc                    \* idle | normalized | renormalized

timeVars == <<tn_date, tn_time, tn_val, tn_hint, tn_default, tn_eod, tn_offset, tn_out, tn_pc>>

VARIABLES
    \* ---- build_deployments.py main() ----
    raw_file,                \* the rows of raw_deployment.csv
    bpc,                     \* main(): position  idle | loop | done | crashed | nofile
    bi,                      \* index of the next raw row
    end_time_header,         \* the 'EndTime ...' header found (empty for None)
    tz_hint_from_header,     \* its trailing word (empty for None)
    dep_out,                 \* the rows written to deployments.csv
    exit_status              \* the process exit status; NoExit while it runs

buildVars == <<raw_file, bpc, bi, end_time_header, tz_hint_from_header, dep_out, exit_status>>

VARIABLES
    \* ---- build_observations.py main() ----
    gen_media,               \* the rows of media.csv
    gpc,                     \* main(): position  idle | loop | done | crashed | nofile
    gi,                      \* index of the next media row
    gen_rows,                \* obs_rows, the observations collected in memory
    n_in,                    \* rows read that are not blank lines
    obs_file                 \* the rows of observations.csv (empty while not written)

genVars == <<gen_media, gpc, gi, gen_rows, n_in, obs_file>>

VARIABLES
    \* ---- run_all.py main() ----
    ppc,                     \* main(): position  idle | run | wait | promote | done | died
    env,                     \* what preflight finds: EXIFTOOL_PATH, raw_deployment.csv, data dir
    step,                    \* which command is next or running (1..3 build_steps(), 4 observations)
    started,                 \* the stages started so far, in order
    outcomes,                \* per finished stage: 0, or the status main() died with
    media_linked,            \* media_linked.csv exists
    promoted,                \* media.csv is a copy of media_linked.csv made by this run
    pipe_exit,               \* exit status of run_all.py; NoExit while it runs
    pipe_runs                \* runs of run_all.py so far

pipeVars == <<ppc, env, step, started, outcomes, media_linked, promoted, pipe_exit, pipe_runs>>

vars == <<mergeVars, linkVars, rerunVars, timeVars, buildVars, genVars, pipeVars>>

----------------------------------------------------------------------------
(* Bounds *)
MaxClock     == 2      \* seconds the clock can show
MaxLabelRows == 2      \* rows in one labels file
MaxAiRows    == 2      \* rows in one AI detections file
MaxMediaRows == 2      \* rows of media.csv
MaxReruns    == 2      \* successive runs of merge_labels.py on the same files
MaxRawRows   == 2      \* rows of raw_deployment.csv
MaxGenRows   == 2      \* rows of the media.csv the template generator reads
MaxPipeRuns  == 2      \* runs of run_all.py

----------------------------------------------------------------------------
(* Program constants of merge_labels.py *)
EDITABLE == {"observationType", "scientificName", "count", "lifeStage", "sex",
             "behavior", "observationComments"}
OBSERVATION_TYPE_ENUM == {"animal", "human", "vehicle", "blank", "unknown", "unclassified"}
LIFESTAGE_ENUM == {"adult", "subadult", "juvenile"}
SEX_ENUM == {"female", "male"}
AI_METHOD == "machine learning"
AI_CLASSIFIED_BY == "BioCLIP-2 zero-shot (multi-prompt)"

NoTimestamp == 0
NoRow == [mediaID |-> "<none>"]

----------------------------------------------------------------------------
(* String helpers, defined on the vocabulary the model uses *)

\* str.strip()
Strip(s) ==
    CASE s = " 2"      -> "2"
      [] s = "adult "  -> "adult"
      [] s = " "       -> ""
      [] OTHER         -> s

\* str.lower()
Lower(s) ==
    CASE s = "Animal"           -> "animal"
      [] s = "Unclassified"     -> "unclassified"
      [] s = "Machine Learning" -> "machine learning"
      [] s = "Human"            -> "human"
      [] OTHER                  -> s

\* int(s): the strings int() accepts, and their values
IntStrings == {"2", "1", "0", "-1"}
IntVal(s) == CASE s = "2" -> 2 [] s = "1" -> 1 [] s = "0" -> 0 [] s = "-1" -> 0 - 1 [] OTHER -> 0

\* float(s): the strings float() accepts, and their values in hundredths
FloatStrings == {"0", "0.5000", "0.7", "0.9000"}
FloatVal(s) == CASE s = "0.5000" -> 50 [] s = "0.7" -> 70 [] s = "0.9000" -> 90 [] OTHER -> 0

\* x or y  on strings
Or(x, y) == IF x = "" THEN y ELSE x

\* dict.get(k, "")
Get(d, k) == IF k \in DOMAIN d THEN d[k] ELSE ""

----------------------------------------------------------------------------
(* build_observations.py: the observation row the template generator writes *)
FreshObservation(oid, mid, dep) ==
    [observationID |-> oid, deploymentID |-> dep, mediaID |-> mid,
     observationType |-> "unclassified",
     scientificName |-> "", count |-> "", lifeStage |-> "", sex |-> "", behavior |-> "",
     classificationMethod |-> "", classifiedBy |-> "",
     classificationTimestamp |-> NoTimestamp, classificationProbability |-> "",
     observationComments |-> ""]

\* the rows of media.csv that have mediaID, deploymentID and timestamp
LinkedMedia == << [mediaID |-> "m1", deploymentID |-> "siteA_S1", timestamp |-> 3] >>

\* uuid4().hex[:8], one per media row
ObsIdOf(i) == CASE i = 1 -> "o1" [] i = 2 -> "o2" [] OTHER -> "o3"

\* observations.csv as build_observations.py writes it for media.csv
TemplateTable ==
    [i \in DOMAIN LinkedMedia |->
        FreshObservation(ObsIdOf(i), LinkedMedia[i].mediaID, LinkedMedia[i].deploymentID)]

----------------------------------------------------------------------------
(* Human-merge pass *)

\* the editable columns of the labels file (the template's header has all of them)
lab_fields == {"observationID", "mediaID", "filePath", "timestamp",
               "observationType", "scientificName", "count", "lifeStage", "sex",
               "behavior", "observationComments"}
editable_present == {c \in lab_fields : c \in EDITABLE}

\* does label row l stage a change of column k of observation obs (lines 118-136)
StagesChangeExact(obs, l, k) ==
    LET v   == Strip(l[k])
        cur == Strip(obs[k])
    IN  v /= "" /\ v /= cur

StagesChange(obs, l, k) ==
    LET v   == Strip(l[k])
        cur == Strip(obs[k])
    IN  /\ v /= ""
        /\ IF k = "observationType"
           THEN /\ ~(Lower(v) = "unclassified" /\ Lower(cur) \in {"", "unclassified"})
                /\ Lower(v) /= Lower(cur)
           ELSE v /= cur

\* the dict `changed` of one label row
Changed(obs, l) ==
    [k \in {c \in editable_present : StagesChange(obs, l, c)} |-> Strip(l[k])]

\* validate_row: TRUE when it returns, FALSE when it raises ValueError
ValidateRowNoCount(edits) ==
    LET ot == Strip(Get(edits, "observationType"))
        ls == Strip(Get(edits, "lifeStage"))
        sx == Strip(Get(edits, "sex"))
    IN  /\ (ot = "" \/ ot \in OBSERVATION_TYPE_ENUM)
        /\ (ls = "" \/ ls \in LIFESTAGE_ENUM)
        /\ (sx = "" \/ sx \in SEX_ENUM)

validate_row(edits) ==
    LET ot  == Strip(Get(edits, "observationType"))
        ls  == Strip(Get(edits, "lifeStage"))
        sx  == Strip(Get(edits, "sex"))
        cnt == Strip(Get(edits, "count"))
    IN  /\ (ot = "" \/ ot \in OBSERVATION_TYPE_ENUM)
        /\ (ls = "" \/ ls \in LIFESTAGE_ENUM)
        /\ (sx = "" \/ sx \in SEX_ENUM)
        /\ (cnt = "" \/ (cnt \in IntStrings /\ IntVal(cnt) >= 1))

\* lines 148-149: obs[k] = v for every staged change
ApplyChanged(obs, changed) ==
    [f \in DOMAIN obs |-> IF f \in DOMAIN changed THEN changed[f] ELSE obs[f]]

\* lines 151-156: mark the classification as human
StampHumanAlways(obs, t) ==
    [obs EXCEPT !.classificationMethod = "human",
                !.classifiedBy = "human",
                !.classificationTimestamp = t]

StampHuman(obs, t) ==
    LET cm == Lower(Strip(obs.classificationMethod))
    IN  IF cm \in {"", "machine learning"}
        THEN [obs EXCEPT !.classificationMethod = "human",
                         !.classifiedBy = Or(obs.classifiedBy, "human"),
                         !.classificationTimestamp = t]
        ELSE obs

\* idx_by_oid: the row an observationID maps to (the last one on duplicates), 0 if none
IdxByOid(rows, oid) ==
    LET hits == {i \in 1..Len(rows) : rows[i].observationID = oid}
    IN  IF hits = {} THEN 0 ELSE CHOOSE i \in hits : \A k \in hits : k <= i

\* one iteration of the label loop (lines 110-158) on the rows in memory:
\* the rows afterwards and whether updated_human is incremented
HumanMergeRow(rows, l, t) ==
    LET oid == Strip(l.observationID)
        i   == IdxByOid(rows, oid)
    IN  IF oid = "" \/ i = 0
        THEN [rows |-> rows, counted |-> FALSE]
        ELSE LET changed == Changed(rows[i], l)
             IN  IF DOMAIN changed = {}
                 THEN [rows |-> rows, counted |-> FALSE]
                 ELSE IF ~validate_row(changed)
                 THEN [rows |-> rows, counted |-> FALSE]
                 ELSE [rows |-> [rows EXCEPT ![i] = StampHuman(ApplyChanged(rows[i], changed), t)],
                       counted |-> TRUE]

----------------------------------------------------------------------------
(* Best-detection index (lines 169-182) *)

\* the mediaIDs an AI file mentions: those of media.csv and one it does not have
AllMediaIDs == {LinkedMedia[i].mediaID : i \in DOMAIN LinkedMedia} \cup {"m9"}

\* lines 175-178 and 196-199: the probability of an AI row, 0 when it does not parse
ParseProb(r) ==
    LET t == Strip(Or(r.classificationProbability, "0"))
    IN  IF t \in FloatStrings THEN FloatVal(t) ELSE 0

\* line 181: float(prev.get(...) or "0") raises ValueError on an unparseable cell
PrevProbRaises(prev) == Strip(Or(prev.classificationProbability, "0")) \notin FloatStrings

EmptyIndex == [m \in AllMediaIDs |-> NoRow]

\* lines 172-182: one row of the AI file against the index built so far
IndexRow(idx, r) ==
    LET mid == Strip(r.mediaID)
    IN  IF mid = "" THEN [crashed |-> FALSE, idx |-> idx]
        ELSE LET prev == idx[mid]
             IN  IF prev = NoRow
                 THEN [crashed |-> FALSE, idx |-> [idx EXCEPT ![mid] = r]]
                 ELSE IF PrevProbRaises(prev)
                 THEN [crashed |-> TRUE, idx |-> idx]
                 ELSE IF ParseProb(r) > FloatVal(Strip(Or(prev.classificationProbability, "0")))
                 THEN [crashed |-> FALSE, idx |-> [idx EXCEPT ![mid] = r]]
                 ELSE [crashed |-> FALSE, idx |-> idx]

----------------------------------------------------------------------------
(* AI-merge pass (lines 185-248) *)

AI_FILLABLE == {"observationType", "scientificName", "classificationMethod", "classifiedBy",
                "classificationTimestamp", "classificationProbability"}

IsBlankCell(obs, f) ==
    IF f = "classificationTimestamp" THEN obs[f] = NoTimestamp ELSE Strip(obs[f]) = ""

\* should_fill (lines 213-220); cm is the stripped, lower-cased classificationMethod
FillBlankOnly(obs, cm, field_name) == IsBlankCell(obs, field_name)

FillAlways(obs, cm, field_name) == TRUE

should_fill(obs, cm, field_name) ==
    IsBlankCell(obs, field_name) \/ (cm = AI_METHOD /\ field_name \in AI_FILLABLE)

\* lines 226-228: the observationType the AI row contributes
AiObservationType(ai) ==
    LET val == Strip(ai.observationType)
    IN  IF val = "" \/ val \notin OBSERVATION_TYPE_ENUM THEN "unknown" ELSE val

\* line 241
AiClassifiedBy(ai) == Or(Strip(Or(ai.classifiedBy, AI_CLASSIFIED_BY)), AI_CLASSIFIED_BY)

\* lines 205-210: the human-override guard
NoHumanOverride(cm) == FALSE

HumanOverride(cm) == cm /= "" /\ cm /= AI_METHOD

\* one iteration of the observation loop: the row afterwards and what was counted
\* line 201: ai_prob < args.ai_threshold
NotAboveThreshold(ai_prob, threshold) == ai_prob <= threshold

BelowThreshold(ai_prob, threshold) == ai_prob < threshold

AIMergeRowUnguarded(obs, idx, threshold, t) ==
    LET mid == Strip(obs.mediaID)
    IN  IF mid = "" THEN [obs |-> obs, outcome |-> "nomedia"]
        ELSE LET ai == idx[mid]
             IN  IF ai = NoRow THEN [obs |-> obs, outcome |-> "missing"]
                 ELSE IF BelowThreshold(ParseProb(ai), threshold)
                 THEN [obs |-> obs, outcome |-> "lowconf"]
                 ELSE [obs |-> [obs EXCEPT
                                  !.observationType = AiObservationType(ai),
                                  !.scientificName = Strip(ai.scientificName),
                                  !.classificationMethod = AI_METHOD,
                                  !.classifiedBy = AiClassifiedBy(ai),
                                  !.classificationTimestamp = t,
                                  !.classificationProbability =
                                      Strip(ai.classificationProbability)],
                       outcome |-> "applied"]

AIMergeRowSetsCount(obs, idx, threshold, t) ==
    LET res == AIMergeRowUnguarded(obs, idx, threshold, t)
    IN  [obs |-> [res.obs EXCEPT !.count = IF res.outcome = "applied" THEN "1" ELSE @],
         outcome |-> res.outcome]

AIMergeRow(obs, idx, threshold, t) ==
    LET mid == Strip(obs.mediaID)
    IN  IF mid = "" THEN [obs |-> obs, outcome |-> "nomedia"]
        ELSE LET ai == idx[mid]
             IN  IF ai = NoRow THEN [obs |-> obs, outcome |-> "missing"]
                 ELSE IF BelowThreshold(ParseProb(ai), threshold)
                 THEN [obs |-> obs, outcome |-> "lowconf"]
                 ELSE LET cm == Lower(Strip(obs.classificationMethod))
                      IN  IF HumanOverride(cm) THEN [obs |-> obs, outcome |-> "human"]
                          ELSE LET fill(f) == should_fill(obs, cm, f)
                                   new == [obs EXCEPT
                                      !.observationType =
                                          IF fill("observationType") THEN AiObservationType(ai) ELSE @,
                                      !.scientificName =
                                          IF fill("scientificName") THEN Strip(ai.scientificName) ELSE @,
                                      !.classificationMethod =
                                          IF fill("classificationMethod") THEN AI_METHOD ELSE @,
                                      !.classifiedBy =
                                          IF fill("classifiedBy") THEN AiClassifiedBy(ai) ELSE @,
                                      !.classificationTimestamp =
                                          IF fill("classificationTimestamp") THEN t ELSE @,
                                      !.classificationProbability =
                                          IF fill("classificationProbability")
                                          THEN Strip(ai.classificationProbability) ELSE @]
                               IN  [obs |-> new,
                                    outcome |-> IF fill("observationType") THEN "applied"
                                                ELSE "notapplied"]

----------------------------------------------------------------------------
(* Inputs *)

LabelEdit(ot, sn, cnt, ls, sx, bh, oc) ==
    [observationType |-> ot, scientificName |-> sn, count |-> cnt, lifeStage |-> ls,
     sex |-> sx, behavior |-> bh, observationComments |-> oc]

LabelEdits ==
    { LabelEdit("animal", "", "2", "", "", "", ""),
      LabelEdit("", "", "", "adult ", "female", "", ""),
      LabelEdit("unclassified", "", "", "", "", "", ""),
      LabelEdit("Unclassified", "", "", "", "", "", ""),
      LabelEdit("Animal", "", "", "", "", "", ""),
      LabelEdit("bogus", "", "2", "", "", "", ""),
      LabelEdit("animal", "", "0", "", "", "", ""),
      LabelEdit("", "", "x", "", "", "b", ""),
      LabelEdit("blank", "", "", "baby", "", "", ""),
      LabelEdit("", "Lynx rufus", " 2", "", "unknown", "", "c"),
      LabelEdit("", "", "", "", "", "", "") }

LabelOids == {ObsIdOf(i) : i \in DOMAIN LinkedMedia} \cup {"", "o9"}

LabelRows ==
    { [f \in DOMAIN e \cup {"observationID"} |->
          IF f = "observationID" THEN oid ELSE e[f]] : oid \in LabelOids, e \in LabelEdits }

NoLabel == [observationID |-> "<none>"]

AiRow(mid, ot, sn, by, p) ==
    [mediaID |-> mid, observationType |-> ot, scientificName |-> sn, classifiedBy |-> by,
     classificationProbability |-> p]

AiRows ==
    UNION { { AiRow(mid, "animal", "Puma concolor", AI_CLASSIFIED_BY, "0.9000"),
              AiRow(mid, "blank", "", AI_CLASSIFIED_BY, "0.5000"),
              AiRow(mid, "bird", "", "", "0.7"),
              AiRow(mid, "animal", "", "my-model", "abc") }
            : mid \in AllMediaIDs \cup {""} }

\* --ai-threshold: the default 0.0, or 0.7
Thresholds == {0, 70}

----------------------------------------------------------------------------
(* merge_labels.py main() *)

InitMerge ==
    /\ observations = TemplateTable
    /\ obs_rows = <<>>
    /\ mpc = "idle"
    /\ labLeft = 0
    /\ lab = NoLabel
    /\ aiLeft = 0
    /\ ai_by_media = EmptyIndex
    /\ ai_threshold = 0
    /\ j = 0
    /\ updated_human = 0 /\ updated_ai = 0 /\ skipped_lowconf = 0
    /\ skipped_human_override = 0 /\ missing_ai = 0
    /\ now = 1

\* lines 94-109: load observations.csv and the labels file (n rows; 0 when absent)
StartRun ==
    /\ mpc \in {"idle", "crashed"}
    /\ \E n \in 0..MaxLabelRows : labLeft' = n
    /\ obs_rows' = observations
    /\ mpc' = "human"
    /\ lab' = NoLabel
    /\ aiLeft' = 0
    /\ ai_by_media' = EmptyIndex
    /\ ai_threshold' = 0
    /\ j' = 0
    /\ updated_human' = 0 /\ updated_ai' = 0 /\ skipped_lowconf' = 0
    /\ skipped_human_override' = 0 /\ missing_ai' = 0
    /\ UNCHANGED <<observations, now>>
    /\ UNCHANGED <<linkVars, rerunVars, timeVars, buildVars, genVars, pipeVars>>

\* lines 110-158: one label row
HumanStep ==
    /\ mpc = "human"
    /\ labLeft > 0
    /\ \E l \in LabelRows :
          LET res == HumanMergeRow(obs_rows, l, now)
          IN  /\ lab' = l
              /\ obs_rows' = res.rows
              /\ updated_human' = IF res.counted THEN updated_human + 1 ELSE updated_human
    /\ labLeft' = labLeft - 1
    /\ UNCHANGED <<observations, mpc, aiLeft, ai_by_media, ai_threshold, j, updated_ai,
                   skipped_lowconf, skipped_human_override, missing_ai, now>>
    /\ UNCHANGED <<linkVars, rerunVars, timeVars, buildVars, genVars, pipeVars>>

\* lines 161-170: load the AI file (n rows; 0 when absent); args.ai_threshold is first
\* read by the AI pass
LoadAI ==
    /\ mpc = "human"
    /\ labLeft = 0
    /\ \E n \in 0..MaxAiRows, th \in Thresholds :
          /\ aiLeft' = n
          /\ ai_threshold' = th
    /\ mpc' = "ai"
    /\ j' = 1
    /\ lab' = NoLabel
    /\ UNCHANGED <<observations, obs_rows, labLeft, ai_by_media, updated_human, updated_ai,
                   skipped_lowconf, skipped_human_override, missing_ai, now>>
    /\ UNCHANGED <<linkVars, rerunVars, timeVars, buildVars, genVars, pipeVars>>

\* lines 171-182: one row of the AI file; an uncaught ValueError ends the process
IndexStep ==
    /\ mpc = "ai"
    /\ aiLeft > 0
    /\ \E r \in AiRows :
          LET res == IndexRow(ai_by_media, r)
          IN  IF res.crashed
              THEN /\ mpc' = "crashed"
                   /\ obs_rows' = <<>>
                   /\ ai_by_media' = EmptyIndex
                   /\ aiLeft' = 0
                   /\ ai_threshold' = 0
                   /\ j' = 0
                   /\ updated_human' = 0
              ELSE /\ mpc' = mpc
                   /\ obs_rows' = obs_rows
                   /\ ai_by_media' = res.idx
                   /\ aiLeft' = aiLeft - 1
                   /\ UNCHANGED <<ai_threshold, j, updated_human>>
    /\ UNCHANGED <<observations, labLeft, lab, updated_ai,
                   skipped_lowconf, skipped_human_override, missing_ai, now>>
    /\ UNCHANGED <<linkVars, rerunVars, timeVars, buildVars, genVars, pipeVars>>

\* lines 185-248: one observation row
AIStep ==
    /\ mpc = "ai"
    /\ aiLeft = 0
    /\ j <= Len(obs_rows)
    /\ LET res == AIMergeRow(obs_rows[j], ai_by_media, ai_threshold, now)
       IN  /\ obs_rows' = [obs_rows EXCEPT ![j] = res.obs]
           /\ missing_ai' = IF res.outcome = "missing" THEN missing_ai + 1 ELSE missing_ai
           /\ skipped_lowconf' =
                 IF res.outcome = "lowconf" THEN skipped_lowconf + 1 ELSE skipped_lowconf
           /\ skipped_human_override' =
                 IF res.outcome = "human" THEN skipped_human_override + 1
                 ELSE skipped_human_override
           /\ updated_ai' = IF res.outcome = "applied" THEN updated_ai + 1 ELSE updated_ai
    /\ j' = j + 1
    /\ UNCHANGED <<observations, mpc, labLeft, lab, aiLeft, ai_by_media, ai_threshold,
                   updated_human, now>>
    /\ UNCHANGED <<linkVars, rerunVars, timeVars, buildVars, genVars, pipeVars>>

\* lines 250-266: write --out; with --inplace also overwrite observations.csv
WriteOutput ==
    /\ mpc = "ai"
    /\ aiLeft = 0
    /\ j > Len(obs_rows)
    /\ \E inplace \in BOOLEAN :
          observations' = IF inplace THEN obs_rows ELSE observations
    /\ mpc' = "idle"
    /\ obs_rows' = <<>>
    /\ ai_by_media' = EmptyIndex
    /\ ai_threshold' = 0
    /\ j' = 0
    /\ updated_human' = 0 /\ updated_ai' = 0 /\ skipped_lowconf' = 0
    /\ skipped_human_override' = 0 /\ missing_ai' = 0
    /\ UNCHANGED <<labLeft, lab, aiLeft, now>>
    /\ UNCHANGED <<linkVars, rerunVars, timeVars, buildVars, genVars, pipeVars>>

\* the wall clock advances
Tick ==
    /\ now < MaxClock
    /\ now' = now + 1
    /\ UNCHANGED <<observations, obs_rows, mpc, labLeft, lab, aiLeft, ai_by_media,
                   ai_threshold, j, updated_human, updated_ai, skipped_lowconf, skipped_human_override,
                   missing_ai>>
    /\ UNCHANGED <<linkVars, rerunVars, timeVars, buildVars, genVars, pipeVars>>

----------------------------------------------------------------------------
(* Part II: link_media_by_serial.py *)

NoTime == 0 - 1                 \* None / the empty timestamp cell; instants are 0, 1, 2, ...
NoneId == "<None>"              \* choose_deployment's None
NoMedia == [deploymentID |-> "<none>"]

\* the characters of the deploymentID cells the model uses
Chars(s) ==
    CASE s = ""            -> <<>>
      [] s = "DEPLOY_000"  -> <<"D", "E", "P", "L", "O", "Y", "_", "0", "0", "0">>
      [] s = "deploy_tmp"  -> <<"d", "e", "p", "l", "o", "y", "_", "t", "m", "p">>
      [] s = "MY_DEPLOY"   -> <<"M", "Y", "_", "D", "E", "P", "L", "O", "Y">>
      [] s = "siteA_S1"    -> <<"s", "i", "t", "e", "A", "_", "S", "1">>
      [] s = "siteA_S2"    -> <<"s", "i", "t", "e", "A", "_", "S", "2">>
      [] s = "siteB_S2"    -> <<"s", "i", "t", "e", "B", "_", "S", "2">>
      [] s = "siteA_S3"    -> <<"s", "i", "t", "e", "A", "_", "S", "3">>
      [] s = "siteB_S3"    -> <<"s", "i", "t", "e", "B", "_", "S", "3">>
      [] s = "DEPLOY_S1"   -> <<"D", "E", "P", "L", "O", "Y", "_", "S", "1">>
      [] OTHER             -> <<"?">>

\* str.upper(), character by character
UpperChar(c) ==
    CASE c = "a" -> "A" [] c = "b" -> "B" [] c = "c" -> "C" [] c = "d" -> "D"
      [] c = "e" -> "E" [] c = "f" -> "F" [] c = "g" -> "G" [] c = "h" -> "H"
      [] c = "i" -> "I" [] c = "j" -> "J" [] c = "k" -> "K" [] c = "l" -> "L"
      [] c = "m" -> "M" [] c = "n" -> "N" [] c = "o" -> "O" [] c = "p" -> "P"
      [] c = "q" -> "Q" [] c = "r" -> "R" [] c = "s" -> "S" [] c = "t" -> "T"
      [] c = "u" -> "U" [] c = "v" -> "V" [] c = "w" -> "W" [] c = "x" -> "X"
      [] c = "y" -> "Y" [] c = "z" -> "Z"
      [] OTHER -> c
Upper(cs) == [i \in 1..Len(cs) |-> UpperChar(cs[i])]

\* str.startswith
StartsWith(cs, prefix) == Len(cs) >= Len(prefix) /\ SubSeq(cs, 1, Len(prefix)) = prefix

DEPLOY == <<"D", "E", "P", "L", "O", "Y">>

\* line 107: only (re)assign if missing or placeholder
AlwaysEligible(chosen) == TRUE

IsMissingOrPlaceholder(chosen) ==
    chosen = "" \/ StartsWith(Upper(Chars(chosen)), DEPLOY)

\* rows of deployments.csv
Deployment(id, cam, start, end) ==
    [deploymentID |-> id, cameraID |-> cam, deploymentStart |-> start, deploymentEnd |-> end]

DeploymentTables ==
    { \* S1 once; S2 twice, disjoint windows; S3 twice, overlapping windows
      << Deployment("siteA_S1", "S1", 2, 4),
         Deployment("siteA_S2", "S2", 0, 2),
         Deployment("siteB_S2", "S2", 4, 6),
         Deployment("siteA_S3", "S3", 0, 1),
         Deployment("siteB_S3", "S3", 1, NoTime) >>,
      \* open-ended windows; a row without camera serial; a site named DEPLOY, whose
      \* deploymentID reads like a placeholder
      << Deployment("DEPLOY_S1", "S1", NoTime, 4),
         Deployment("siteA_S2", "S2", NoTime, 2),
         Deployment("siteA_", "", 0, 6),
         Deployment("siteB_S2", "S2", 4, NoTime),
         Deployment("siteA_S3", "S3", 4, NoTime),
         Deployment("siteB_S3", "S3", 0, NoTime) >> }

Serials == {"", "S1", "S2", "S3", "S9"}

\* load_deployments_by_serial (lines 13-29)
RECURSIVE LoadFrom(_, _, _)
LoadFrom(table, i, idx) ==
    IF i > Len(table) THEN idx
    ELSE LET r == table[i]
             serial == r.cameraID
         IN  IF serial = "" THEN LoadFrom(table, i + 1, idx)
             ELSE LoadFrom(table, i + 1,
                    [idx EXCEPT ![serial] = Append(@, [deploymentID |-> r.deploymentID,
                                                        start |-> r.deploymentStart,
                                                        end |-> r.deploymentEnd])])

load_deployments_by_serial(table) == LoadFrom(table, 1, [s \in Serials |-> <<>>])

\* EXIF payload cells: "" (blank), text json.loads rejects, a JSON object of strings,
\* a JSON array of so many items, or the object {"SerialNumber": 12345}
BlankExif == [kind |-> "blank"]
BadExif == [kind |-> "unparseable"]
ExifObject(md) == [kind |-> "object", md |-> md]
ExifArray(n) == [kind |-> "array", items |-> n]
ExifNumberSerial == [kind |-> "number serial"]
EmptyMap == [k \in {} |-> ""]

ExifCells ==
    { BlankExif, BadExif, ExifObject(EmptyMap),
      ExifObject([SerialNumber |-> "S1"]),
      ExifObject([SerialNumber |-> "S2"]),
      ExifObject([SerialNumber |-> "S3"]),
      ExifObject([SerialNumber |-> "S9"]),
      ExifObject([SerialNumber |-> "", BodySerialNumber |-> "S2"]),
      ExifObject([Model |-> "HF2X"]),
      ExifArray(0), ExifArray(2), ExifNumberSerial }

\* line 54 raises AttributeError: md is a list (truthy, or falsy with no fallback to
\* replace it), or SerialNumber is a number, which has no strip()
SerialRaises(r, fallback_by_abspath) ==
    \/ r.exifData.kind = "array" /\ r.exifData.items > 0
    \/ r.exifData.kind = "array" /\ r.exifData.items = 0 /\ DOMAIN fallback_by_abspath = {}
    \/ r.exifData.kind = "number serial"

\* get_serial_from_media_row (lines 40-54), when it returns
get_serial_from_media_row(r, fallback_by_abspath) ==
    LET md0 == IF r.exifData.kind = "object" THEN r.exifData.md ELSE EmptyMap
        md  == IF DOMAIN md0 = {} /\ DOMAIN fallback_by_abspath /= {}
               THEN (IF r.filePath \in DOMAIN fallback_by_abspath
                     THEN fallback_by_abspath[r.filePath] ELSE EmptyMap)
               ELSE md0
    IN  Or(Get(md, "SerialNumber"), Or(Get(md, "BodySerialNumber"), ""))

\* parse_ts (lines 56-61)
parse_ts(r) == r.timestamp

\* choose_deployment (lines 63-75)
WindowContains(dep, when) ==
    /\ (dep.start = NoTime \/ when >= dep.start)
    /\ (dep.end = NoTime \/ when <= dep.end)

ChooseByWindowOnly(cands, when) ==
    IF Len(cands) = 0 THEN NoneId
    ELSE IF when = NoTime THEN NoneId
    ELSE LET hits == {i \in 1..Len(cands) : WindowContains(cands[i], when)}
         IN  IF hits = {} THEN NoneId
             ELSE cands[CHOOSE i \in hits : \A k \in hits : i <= k].deploymentID

choose_deployment(cands, when) ==
    IF Len(cands) = 0 THEN NoneId
    ELSE IF Len(cands) = 1 THEN cands[1].deploymentID
    ELSE IF when = NoTime THEN NoneId
    ELSE LET hits == {i \in 1..Len(cands) : WindowContains(cands[i], when)}
         IN  IF hits = {} THEN NoneId
             ELSE cands[CHOOSE i \in hits : \A k \in hits : i <= k].deploymentID

\* rows of media.csv
MediaRow(dep, ts, exif, path) ==
    [deploymentID |-> dep, timestamp |-> ts, exifData |-> exif, filePath |-> path]

BlankMediaRow == MediaRow("", NoTime, BlankExif, "")

MediaDeploymentIDs == {"", "DEPLOY_000", "deploy_tmp", "MY_DEPLOY", "siteA_S2"}
MediaTimes == {NoTime, 1, 3, 5}

\* the file path matters only to a row whose exifData holds no metadata (line 46), so
\* only those rows come with both paths
NoMetadataCells ==
    {x \in ExifCells : \/ x.kind \in {"blank", "unparseable"}
                       \/ x.kind = "array" /\ x.items = 0
                       \/ x.kind = "object" /\ DOMAIN x.md = {}}
MediaRows ==
    { MediaRow(d, t, x, "p1") : d \in MediaDeploymentIDs, t \in MediaTimes, x \in ExifCells }
    \cup { MediaRow(d, t, x, "p2") : d \in MediaDeploymentIDs, t \in MediaTimes,
                                     x \in NoMetadataCells }
    \cup {BlankMediaRow}

\* line 99: a blank line
IsBlankLine(r) ==
    r.deploymentID = "" /\ r.timestamp = NoTime /\ r.exifData.kind = "blank" /\ r.filePath = ""

\* media_metadata.json: absent, or an entry for p1
MetaIndexes == { EmptyMap, [p \in {"p1"} |-> [SerialNumber |-> "S2"]] }

InitLink ==
    /\ lpc = "idle"
    /\ by_serial = [s \in Serials |-> <<>>]
    /\ meta_idx = EmptyMap
    /\ mediaLeft = 0
    /\ row = NoMedia
    /\ written = NoMedia
    /\ total = 0 /\ linked = 0 /\ warn_missing_serial = 0 /\ warn_ambiguous = 0

\* lines 78-94: load the deployments, the JSON fallback, open media.csv (n rows)
LinkStart ==
    /\ lpc \in {"idle", "done", "crashed"}
    /\ \E t \in DeploymentTables : by_serial' = load_deployments_by_serial(t)
    /\ \E m \in MetaIndexes : meta_idx' = m
    /\ \E n \in 0..MaxMediaRows : mediaLeft' = n
    /\ lpc' = "loop"
    /\ row' = NoMedia
    /\ written' = NoMedia
    /\ total' = 0 /\ linked' = 0 /\ warn_missing_serial' = 0 /\ warn_ambiguous' = 0
    /\ UNCHANGED <<mergeVars, rerunVars, timeVars, buildVars, genVars, pipeVars>>

\* lines 96-120: what one media row is written as and which counter it moves
LinkRowClearsUnlinked(r, deployments, fallback_by_abspath) ==
    LET serial == get_serial_from_media_row(r, fallback_by_abspath)
        picked == choose_deployment(deployments[serial], parse_ts(r))
    IN  IF IsMissingOrPlaceholder(r.deploymentID) /\ picked /= NoneId /\ picked /= ""
        THEN [written |-> [r EXCEPT !.deploymentID = picked], outcome |-> "linked"]
        ELSE [written |-> [r EXCEPT !.deploymentID = ""], outcome |-> "kept"]

LinkRow(r, deployments, fallback_by_abspath) ==
    LET serial == get_serial_from_media_row(r, fallback_by_abspath)
        when   == parse_ts(r)
        chosen == r.deploymentID
        cands  == deployments[serial]
        picked == choose_deployment(cands, when)
    IN  IF IsMissingOrPlaceholder(chosen)
        THEN IF picked /= NoneId /\ picked /= ""
             THEN [written |-> [r EXCEPT !.deploymentID = picked], outcome |-> "linked"]
             ELSE [written |-> r,
                   outcome |-> IF serial = "" THEN "missing"
                               ELSE IF Len(cands) > 1 THEN "ambiguous"
                               ELSE "unresolved"]
        ELSE [written |-> r, outcome |-> "kept"]

\* lines 96-120: one media row; an AttributeError of get_serial_from_media_row is not
\* caught and ends the process with a traceback, the row and those after it unwritten
LinkStep ==
    /\ lpc = "loop"
    /\ mediaLeft > 0
    /\ \E r \in MediaRows :
          /\ row' = r
          /\ total' = total + 1
          /\ IF IsBlankLine(r)
             THEN /\ written' = NoMedia
                  /\ mediaLeft' = mediaLeft - 1
                  /\ UNCHANGED <<lpc, linked, warn_missing_serial, warn_ambiguous>>
             ELSE IF SerialRaises(r, meta_idx)
             THEN /\ lpc' = "crashed"
                  /\ written' = NoMedia
                  /\ UNCHANGED <<mediaLeft, linked, warn_missing_serial, warn_ambiguous>>
             ELSE \E res \in {LinkRow(r, by_serial, meta_idx)} :
                      /\ written' = res.written
                      /\ linked' = IF res.outcome = "linked" THEN linked + 1 ELSE linked
                      /\ warn_missing_serial' =
                            IF res.outcome = "missing" THEN warn_missing_serial + 1
                            ELSE warn_missing_serial
                      /\ warn_ambiguous' =
                            IF res.outcome = "ambiguous" THEN warn_ambiguous + 1
                            ELSE warn_ambiguous
                      /\ mediaLeft' = mediaLeft - 1
                      /\ lpc' = lpc
    /\ UNCHANGED <<by_serial, meta_idx>>
    /\ UNCHANGED <<mergeVars, rerunVars, timeVars, buildVars, genVars, pipeVars>>

\* lines 122-127: print the summary
LinkFinish ==
    /\ lpc = "loop"
    /\ mediaLeft = 0
    /\ lpc' = "done"
    /\ row' = NoMedia
    /\ written' = NoMedia
    /\ UNCHANGED <<by_serial, meta_idx, mediaLeft,
                   total, linked, warn_missing_serial, warn_ambiguous>>
    /\ UNCHANGED <<mergeVars, rerunVars, timeVars, buildVars, genVars, pipeVars>>

----------------------------------------------------------------------------
(* Part III: merge_labels.py main() run on whole input files, run after run *)

\* lines 110-158: the label loop over the labels file
RECURSIVE HumanPass(_, _, _, _)
HumanPass(rows, labels, i, t) ==
    IF i > Len(labels) THEN rows
    ELSE HumanPass(HumanMergeRow(rows, labels[i], t).rows, labels, i + 1, t)

\* lines 171-182: the loop over the AI file
RECURSIVE BuildIndex(_, _, _)
BuildIndex(ai, i, idx) ==
    IF i > Len(ai) THEN [crashed |-> FALSE, idx |-> idx]
    ELSE LET res == IndexRow(idx, ai[i])
         IN  IF res.crashed THEN [crashed |-> TRUE, idx |-> idx]
             ELSE BuildIndex(ai, i + 1, res.idx)

\* lines 185-248: the loop over the observations
AIPass(rows, idx, threshold, t) ==
    [i \in DOMAIN rows |-> AIMergeRow(rows[i], idx, threshold, t).obs]

\* main() with --inplace: the table written back, or a crash before anything is written
MergeRun(table, labels, ai, threshold, t) ==
    LET afterHuman == HumanPass(table, labels, 1, t)
        index      == BuildIndex(ai, 1, EmptyIndex)
    IN  IF index.crashed
        THEN [crashed |-> TRUE, table |-> table, idx |-> index.idx]
        ELSE [crashed |-> FALSE,
              table |-> AIPass(afterHuman, index.idx, threshold, t),
              idx |-> index.idx]

\* the label rows and detection rows the files are made of
RerunLabelRows == {l \in LabelRows : l.observationID = ObsIdOf(1)}
RerunAiRows ==
    {r \in AiRows : r.mediaID = LinkedMedia[1].mediaID}
    \cup { AiRow(LinkedMedia[1].mediaID, "vehicle", "", AI_CLASSIFIED_BY, ""),
           AiRow("", "human", "", AI_CLASSIFIED_BY, "0.9000") }

InitRerun ==
    /\ re_labels = <<>>
    /\ re_ai = <<>>
    /\ re_th = 0
    /\ re_table = TemplateTable
    /\ re_prev = TemplateTable
    /\ re_index = EmptyIndex
    /\ re_crashed = FALSE
    /\ re_runs = 0

\* the annotator adds a row to the labels file
AddLabelRow ==
    /\ re_runs = 0
    /\ Len(re_labels) < MaxLabelRows
    /\ \E l \in RerunLabelRows : re_labels' = Append(re_labels, l)
    /\ UNCHANGED <<re_ai, re_th, re_table, re_prev, re_index, re_crashed, re_runs>>
    /\ UNCHANGED <<mergeVars, linkVars, timeVars, buildVars, genVars, pipeVars>>

\* the detector adds a row to the AI file
AddDetectionRow ==
    /\ re_runs = 0
    /\ Len(re_ai) < MaxAiRows
    /\ \E r \in RerunAiRows : re_ai' = Append(re_ai, r)
    /\ UNCHANGED <<re_labels, re_th, re_table, re_prev, re_index, re_crashed, re_runs>>
    /\ UNCHANGED <<mergeVars, linkVars, timeVars, buildVars, genVars, pipeVars>>

\* one run of merge_labels.py --inplace at second re_runs + 1; every run is given the
\* threshold of the first
RerunMerge ==
    /\ re_runs < MaxReruns
    /\ \E th \in Thresholds :
          /\ re_runs = 0 \/ th = re_th
          /\ re_th' = th
          /\ LET res == MergeRun(re_table, re_labels, re_ai, th, re_runs + 1)
             IN  /\ re_table' = res.table
                 /\ re_index' = res.idx
                 /\ re_crashed' = res.crashed
    /\ re_prev' = re_table
    /\ re_runs' = re_runs + 1
    /\ UNCHANGED <<re_labels, re_ai>>
    /\ UNCHANGED <<mergeVars, linkVars, timeVars, buildVars, genVars, pipeVars>>

----------------------------------------------------------------------------
(* Part IV: build_deployments.py -- the time functions.  Cells are sequences of     *)
(* characters.                                                                      *)

LowerChar(c) ==
    CASE c = "A" -> "a" [] c = "B" -> "b" [] c = "C" -> "c" [] c = "D" -> "d"
      [] c = "E" -> "e" [] c = "F" -> "f" [] c = "G" -> "g" [] c = "H" -> "h"
      [] c = "I" -> "i" [] c = "J" -> "j" [] c = "K" -> "k" [] c = "L" -> "l"
      [] c = "M" -> "m" [] c = "N" -> "n" [] c = "O" -> "o" [] c = "P" -> "p"
      [] c = "Q" -> "q" [] c = "R" -> "r" [] c = "S" -> "s" [] c = "T" -> "t"
      [] c = "U" -> "u" [] c = "V" -> "v" [] c = "W" -> "w" [] c = "X" -> "x"
      [] c = "Y" -> "y" [] c = "Z" -> "z"
      [] OTHER -> c
LowerChars(cs) == [i \in 1..Len(cs) |-> LowerChar(cs[i])]

DigitChars == <<"0", "1", "2", "3", "4", "5", "6", "7", "8", "9">>
IsDigit(c) == \E d \in 1..10 : DigitChars[d] = c
DigitVal(c) == (CHOOSE d \in 1..10 : DigitChars[d] = c) - 1

\* str.isdigit() and int() on a run of digits
AllDigits(cs) == Len(cs) > 0 /\ \A i \in 1..Len(cs) : IsDigit(cs[i])
RECURSIVE NumVal(_)
NumVal(cs) ==
    IF cs = <<>> THEN 0 ELSE NumVal(SubSeq(cs, 1, Len(cs) - 1)) * 10 + DigitVal(cs[Len(cs)])

\* str.strip()
RECURSIVE StripChars(_)
StripChars(cs) ==
    IF cs = <<>> THEN cs
    ELSE IF cs[1] = " " THEN StripChars(Tail(cs))
    ELSE IF cs[Len(cs)] = " " THEN StripChars(SubSeq(cs, 1, Len(cs) - 1))
    ELSE cs

\* str.split(sep)
RECURSIVE SplitOn(_, _)
SplitOn(cs, sep) ==
    IF \A i \in 1..Len(cs) : cs[i] /= sep THEN <<cs>>
    ELSE LET k == CHOOSE i \in 1..Len(cs) : cs[i] = sep /\ \A m \in 1..(i - 1) : cs[m] /= sep
         IN  <<SubSeq(cs, 1, k - 1)>> \o SplitOn(SubSeq(cs, k + 1, Len(cs)), sep)

\* str.split(): the words between runs of blanks
NonEmptyField(f) == f /= <<>>
Words(cs) == SelectSeq(SplitOn(cs, " "), NonEmptyField)

\* a number written with a fixed count of digits (strftime's %Y, %m, %d, %H, %M, %S)
Pad2(n) == <<DigitChars[((n \div 10) % 10) + 1], DigitChars[(n % 10) + 1]>>
Pad4(n) ==
    <<DigitChars[((n \div 1000) % 10) + 1], DigitChars[((n \div 100) % 10) + 1]>> \o Pad2(n)

\* TZ_ABBR_TO_OFFSET (lines 9-15)
TZ_ABBR_TO_OFFSET ==
    [a \in {<<"U", "T", "C">>, <<"Z">>,
            <<"E", "S", "T">>, <<"E", "D", "T">>, <<"C", "S", "T">>, <<"C", "D", "T">>,
            <<"M", "S", "T">>, <<"M", "D", "T">>, <<"P", "S", "T">>, <<"P", "D", "T">>} |->
        CASE a = <<"U", "T", "C">> -> <<"Z">>
          [] a = <<"Z">> -> <<"Z">>
          [] a = <<"E", "S", "T">> -> <<"-", "0", "5", ":", "0", "0">>
          [] a = <<"E", "D", "T">> -> <<"-", "0", "4", ":", "0", "0">>
          [] a = <<"C", "S", "T">> -> <<"-", "0", "6", ":", "0", "0">>
          [] a = <<"C", "D", "T">> -> <<"-", "0", "5", ":", "0", "0">>
          [] a = <<"M", "S", "T">> -> <<"-", "0", "7", ":", "0", "0">>
          [] a = <<"M", "D", "T">> -> <<"-", "0", "6", ":", "0", "0">>
          [] a = <<"P", "S", "T">> -> <<"-", "0", "8", ":", "0", "0">>
          [] a = <<"P", "D", "T">> -> <<"-", "0", "7", ":", "0", "0">>]

\* the shape of a numeric offset (line 21)
IsNumericOffset(v) ==
    /\ Len(v) = 6
    /\ v[1] \in {"+", "-"}
    /\ AllDigits(SubSeq(v, 2, 3))
    /\ v[4] = ":"
    /\ AllDigits(SubSeq(v, 5, 6))

\* normalize_offset (lines 17-31); None and "" are both the empty sequence
NormalizeOffsetHintFirst(val, header_hint, default_hint) ==
    LET h == Upper(StripChars(header_hint))
        d == Upper(StripChars(default_hint))
        v == Upper(StripChars(val))
    IN  IF header_hint /= <<>> /\ h \in DOMAIN TZ_ABBR_TO_OFFSET THEN TZ_ABBR_TO_OFFSET[h]
        ELSE IF v /= <<>>
        THEN (IF v \in DOMAIN TZ_ABBR_TO_OFFSET THEN TZ_ABBR_TO_OFFSET[v] ELSE v)
        ELSE IF d \in DOMAIN TZ_ABBR_TO_OFFSET THEN TZ_ABBR_TO_OFFSET[d] ELSE <<"Z">>

NormalizeOffsetAsSupplied(val, header_hint, default_hint) ==
    IF val /= <<>> /\ StripChars(val) /= <<>>
    THEN LET v == Upper(StripChars(val))
         IN  IF v = <<"Z">> THEN <<"Z">>
             ELSE IF IsNumericOffset(v) THEN v
             ELSE IF v \in DOMAIN TZ_ABBR_TO_OFFSET THEN TZ_ABBR_TO_OFFSET[v]
             ELSE val
    ELSE NormalizeOffsetHintFirst(val, header_hint, default_hint)

normalize_offset(val, header_hint, default_hint) ==
    IF val /= <<>> /\ StripChars(val) /= <<>>
    THEN LET v == Upper(StripChars(val))
         IN  IF v = <<"Z">> THEN <<"Z">>
             ELSE IF IsNumericOffset(v) THEN v
             ELSE IF v \in DOMAIN TZ_ABBR_TO_OFFSET THEN TZ_ABBR_TO_OFFSET[v]
             ELSE v
    ELSE LET h == Upper(StripChars(header_hint))
             d == Upper(StripChars(default_hint))
         IN  IF header_hint /= <<>> /\ h \in DOMAIN TZ_ABBR_TO_OFFSET
             THEN TZ_ABBR_TO_OFFSET[h]
             ELSE IF d \in DOMAIN TZ_ABBR_TO_OFFSET THEN TZ_ABBR_TO_OFFSET[d]
             ELSE <<"Z">>

\* None, and the outcome of a function that raised ValueError
NoValue == [kind |-> "none"]
Raised == [kind |-> "ValueError"]

\* days of a month (datetime's range check)
IsLeap(y) == (y % 4 = 0 /\ y % 100 /= 0) \/ y % 400 = 0
DaysIn(y, m) ==
    IF m = 2 THEN (IF IsLeap(y) THEN 29 ELSE 28)
    ELSE IF m \in {4, 6, 9, 11} THEN 30 ELSE 31

\* strptime fields: %m and %I (1..12), %d (1..31), %H, %M, %S: one or two digits
FieldIn(f, lo, hi) ==
    AllDigits(f) /\ Len(f) <= 2 /\ NumVal(f) >= lo /\ NumVal(f) <= hi

\* datetime(d.year, d.month, d.day, 0, 0, 0)
Date(y, m, d) == [kind |-> "datetime", year |-> y, month |-> m, day |-> d,
                  hour |-> 0, minute |-> 0, second |-> 0]

\* strptime(s, fmt) for the three date formats: the datetime, or Raised
StrpMDY4(cs) ==                       \* %m/%d/%Y
    LET p == SplitOn(cs, "/")
    IN  IF /\ Len(p) = 3 /\ FieldIn(p[1], 1, 12) /\ FieldIn(p[2], 1, 31)
           /\ AllDigits(p[3]) /\ Len(p[3]) = 4 /\ NumVal(p[3]) >= 1
           /\ NumVal(p[2]) <= DaysIn(NumVal(p[3]), NumVal(p[1]))
        THEN Date(NumVal(p[3]), NumVal(p[1]), NumVal(p[2]))
        ELSE Raised

StrpMDY2(cs) ==                       \* %m/%d/%y
    LET p == SplitOn(cs, "/")
        y == IF NumVal(p[3]) >= 69 THEN 1900 + NumVal(p[3]) ELSE 2000 + NumVal(p[3])
    IN  IF /\ Len(p) = 3 /\ FieldIn(p[1], 1, 12) /\ FieldIn(p[2], 1, 31)
           /\ AllDigits(p[3]) /\ Len(p[3]) = 2
           /\ NumVal(p[2]) <= DaysIn(y, NumVal(p[1]))
        THEN Date(y, NumVal(p[1]), NumVal(p[2]))
        ELSE Raised

StrpYMD(cs) ==                        \* %Y-%m-%d
    LET p == SplitOn(cs, "-")
    IN  IF /\ Len(p) = 3 /\ AllDigits(p[1]) /\ Len(p[1]) = 4 /\ NumVal(p[1]) >= 1
           /\ FieldIn(p[2], 1, 12) /\ FieldIn(p[3], 1, 31)
           /\ NumVal(p[3]) <= DaysIn(NumVal(p[1]), NumVal(p[2]))
        THEN Date(NumVal(p[1]), NumVal(p[2]), NumVal(p[3]))
        ELSE Raised

\* parse_date (lines 33-43)
parse_date(s) ==
    IF s = <<>> \/ StripChars(s) = <<>> THEN NoValue
    ELSE LET cs == StripChars(s)
         IN  IF StrpMDY4(cs) /= Raised THEN StrpMDY4(cs)
             ELSE IF StrpMDY2(cs) /= Raised THEN StrpMDY2(cs)
             ELSE IF StrpYMD(cs) /= Raised THEN StrpYMD(cs)
             ELSE Raised

\* (t.hour, t.minute, t.second)
Hms(h, m, sec) == [kind |-> "hms", hour |-> h, minute |-> m, second |-> sec]

IsAmPm(w) == Upper(w) \in {<<"A", "M">>, <<"P", "M">>}
Hour24(i, w) == IF Upper(w) = <<"A", "M">> THEN i % 12 ELSE (i % 12) + 12

\* strptime(s, fmt) for the four time formats
StrpIMSp(cs) ==                       \* %I:%M:%S %p
    LET w == Words(cs)
        p == SplitOn(w[1], ":")
    IN  IF /\ Len(w) = 2 /\ IsAmPm(w[2]) /\ Len(p) = 3
           /\ FieldIn(p[1], 1, 12) /\ FieldIn(p[2], 0, 59) /\ FieldIn(p[3], 0, 59)
        THEN Hms(Hour24(NumVal(p[1]), w[2]), NumVal(p[2]), NumVal(p[3]))
        ELSE Raised

StrpIMp(cs) ==                        \* %I:%M %p
    LET w == Words(cs)
        p == SplitOn(w[1], ":")
    IN  IF /\ Len(w) = 2 /\ IsAmPm(w[2]) /\ Len(p) = 2
           /\ FieldIn(p[1], 1, 12) /\ FieldIn(p[2], 0, 59)
        THEN Hms(Hour24(NumVal(p[1]), w[2]), NumVal(p[2]), 0)
        ELSE Raised

StrpHMS(cs) ==                        \* %H:%M:%S
    LET p == SplitOn(cs, ":")
    IN  IF /\ Len(p) = 3
           /\ FieldIn(p[1], 0, 23) /\ FieldIn(p[2], 0, 59) /\ FieldIn(p[3], 0, 59)
        THEN Hms(NumVal(p[1]), NumVal(p[2]), NumVal(p[3]))
        ELSE Raised

StrpHM(cs) ==                         \* %H:%M
    LET p == SplitOn(cs, ":")
    IN  IF Len(p) = 2 /\ FieldIn(p[1], 0, 23) /\ FieldIn(p[2], 0, 59)
        THEN Hms(NumVal(p[1]), NumVal(p[2]), 0)
        ELSE Raised

\* parse_time (lines 45-55)
parse_time(s) ==
    IF s = <<>> \/ StripChars(s) = <<>> THEN NoValue
    ELSE LET cs == StripChars(s)
         IN  IF StrpIMSp(cs) /= Raised THEN StrpIMSp(cs)
             ELSE IF StrpIMp(cs) /= Raised THEN StrpIMp(cs)
             ELSE IF StrpHMS(cs) /= Raised THEN StrpHMS(cs)
             ELSE IF StrpHM(cs) /= Raised THEN StrpHM(cs)
             ELSE Raised

\* combine_dt (lines 57-63)
combine_dt(d, hms, end_of_day_if_none) ==
    IF d = NoValue THEN NoValue
    ELSE IF hms /= NoValue
    THEN [d EXCEPT !.hour = hms.hour, !.minute = hms.minute, !.second = hms.second]
    ELSE IF end_of_day_if_none THEN [d EXCEPT !.hour = 23, !.minute = 59, !.second = 59]
    ELSE d

\* iso_with_offset (lines 65-69)
iso_with_offset(dt, offset) ==
    IF dt = NoValue THEN <<>>
    ELSE Pad4(dt.year) \o <<"-">> \o Pad2(dt.month) \o <<"-">> \o Pad2(dt.day) \o <<"T">>
         \o Pad2(dt.hour) \o <<":">> \o Pad2(dt.minute) \o <<":">> \o Pad2(dt.second)
         \o (IF offset = <<"Z">> THEN <<"Z">> ELSE offset)

\* lines 140-151 for one date cell and one time cell: the text written, or the
\* ValueError that parse_date or parse_time raised
Text(cs) == [kind |-> "text", text |-> cs]
NormalizeCells(date, time, offset, end_of_day_if_none) ==
    LET d == parse_date(date)
    IN  IF d = Raised THEN Raised
        ELSE LET t == parse_time(time)
             IN  IF t = Raised THEN Raised
                 ELSE Text(iso_with_offset(combine_dt(d, t, end_of_day_if_none), offset))

\* the cells the functions are called with
DateCells ==
    { <<>>, <<"0", "3", "/", "0", "5", "/", "2", "0", "2", "4">>,
      <<"3", "/", "5", "/", "2", "4">>,
      <<"2", "0", "2", "4", "-", "0", "3", "-", "0", "5">>,
      <<" ", "1", "2", "/", "3", "1", "/", "9", "9", " ">>,
      <<"0", "2", "/", "3", "0", "/", "2", "0", "2", "4">>,
      <<"M", "a", "r", "c", "h", " ", "5">> }

TimeCells ==
    { <<>>, <<"0", "9", ":", "0", "0">>,
      <<"9", ":", "0", "5", ":", "0", "7", " ", "P", "M">>,
      <<"1", "2", ":", "3", "0", " ", "a", "m">>,
      <<"2", "3", ":", "5", "9", ":", "5", "9">>,
      <<"2", "5", ":", "0", "0">> }

OffsetCells ==
    { <<>>, <<" ">>, <<"z">>, <<"-", "0", "8", ":", "0", "0">>,
      <<" ", "p", "s", "t", " ">>,
      <<"+", "0", "5", "3", "0">>,
      <<"L", "o", "c", "a", "l">>,
      <<" ", "G", "M", "T", "+", "1">> }

HeaderHints == { <<>>, <<"E", "S", "T">>, <<"p", "d", "t">>, <<"(", "l", "o", "c", "a", "l", ")">> }

DefaultHints == { <<"E", "S", "T">>, <<"c", "s", "t">>, <<"X", "Y", "Z">> }

InitTime ==
    /\ tn_date = <<>> /\ tn_time = <<>> /\ tn_val = <<>> /\ tn_hint = <<>>
    /\ tn_default = <<"E", "S", "T">>
    /\ tn_eod = FALSE
    /\ tn_offset = <<>>
    /\ tn_out = NoValue
    /\ tn_pc = "idle"

\* lines 140-151 on one pair of cells
Normalize ==
    /\ tn_pc = "idle"
    /\ \E date \in DateCells, time \in TimeCells, val \in OffsetCells,
          hint \in HeaderHints, default \in DefaultHints, eod \in BOOLEAN :
          LET offset == normalize_offset(val, hint, default)
          IN  /\ tn_date' = date /\ tn_time' = time /\ tn_val' = val
              /\ tn_hint' = hint /\ tn_default' = default /\ tn_eod' = eod
              /\ tn_offset' = offset
              /\ tn_out' = NormalizeCells(date, time, offset, eod)
    /\ tn_pc' = "normalized"
    /\ UNCHANGED <<mergeVars, linkVars, rerunVars, buildVars, genVars, pipeVars>>

\* the timestamp written is given back as the date cell, with nothing else overriding
Renormalize ==
    /\ tn_pc = "normalized"
    /\ tn_out.kind = "text" /\ tn_out.text /= <<>>
    /\ tn_date' = tn_out.text
    /\ tn_time' = <<>>
    /\ tn_val' = <<>>
    /\ LET offset == normalize_offset(<<>>, tn_hint, tn_default)
       IN  /\ tn_offset' = offset
           /\ tn_out' = NormalizeCells(tn_out.text, <<>>, offset, tn_eod)
    /\ tn_pc' = "renormalized"
    /\ UNCHANGED <<tn_hint, tn_default, tn_eod>>
    /\ UNCHANGED <<mergeVars, linkVars, rerunVars, buildVars, genVars, pipeVars>>

----------------------------------------------------------------------------
(* Part V: build_deployments.py main() *)

NoExit == 0 - 1

\* "sub in cs"
Contains(cs, sub) ==
    \E i \in 1..(Len(cs) - Len(sub) + 1) : SubSeq(cs, i, i + Len(sub) - 1) = sub

\* h.replace(" ", "")
NotBlankChar(c) == c /= " "
RemoveBlanks(cs) == SelectSeq(cs, NotBlankChar)

\* str.strip("_")
RECURSIVE StripUnderscores(_)
StripUnderscores(cs) ==
    IF cs = <<>> THEN cs
    ELSE IF cs[1] = "_" THEN StripUnderscores(Tail(cs))
    ELSE IF cs[Len(cs)] = "_" THEN StripUnderscores(SubSeq(cs, 1, Len(cs) - 1))
    ELSE cs

\* the header of the end-time column: with a zone, without, spelled apart, or no column
EndHeaders ==
    { <<"E", "n", "d", "T", "i", "m", "e", " ", "E", "S", "T">>,
      <<"E", "n", "d", "T", "i", "m", "e">>,
      <<"E", "n", "d", " ", "T", "i", "m", "e", " ", "p", "s", "t">>,
      <<>> }

\* r.fieldnames, as far as the header scan is concerned
Fieldnames(end_header) ==
    << <<"S", "t", "a", "r", "t", "T", "i", "m", "e">>,
       <<"e", "n", "d", "L", "o", "c", "a", "l">> >>
    \o (IF end_header = <<>> THEN <<>> ELSE <<end_header>>)

\* lines 104-112: the first header that contains "endtime", and its last word
IsEndTimeHeader(h) == h /= <<>> /\ Contains(LowerChars(RemoveBlanks(h)), <<"e", "n", "d", "t", "i", "m", "e">>)
FindEndTimeHeader(fieldnames) ==
    LET hits == {i \in 1..Len(fieldnames) : IsEndTimeHeader(fieldnames[i])}
    IN  IF hits = {} THEN <<>>
        ELSE fieldnames[CHOOSE i \in hits : \A k \in hits : i <= k]
TzHintOf(h) ==
    LET parts == Words(h)
    IN  IF h /= <<>> /\ Len(parts) >= 2 THEN parts[Len(parts)] ELSE <<>>

\* a row of raw_deployment.csv
RawRow(site, serial, startLocal, StartTime, endLocal, EndTime, offset) ==
    [siteID |-> site, cameraSerial |-> serial, startLocal |-> startLocal,
     StartTime |-> StartTime, endLocal |-> endLocal, EndTime |-> EndTime, offset |-> offset]

RawRows ==
    { \* a deployment of camera S1 at site A, and its redeployment a month later
      RawRow(<<"A">>, <<"S", "1">>, <<"0", "3", "/", "0", "5", "/", "2", "0", "2", "4">>, <<"0", "9", ":", "0", "0">>,
             <<"0", "3", "/", "0", "7", "/", "2", "0", "2", "4">>, <<>>, <<>>),
      RawRow(<<"A">>, <<"S", "1">>, <<"2", "0", "2", "4", "-", "0", "4", "-", "0", "1">>, <<>>, <<>>, <<>>, <<>>),
      \* the end date lies before the start date
      RawRow(<<"B">>, <<"S", "2">>, <<"3", "/", "7", "/", "2", "4">>, <<"1", "0", ":", "0", "0", " ", "P", "M">>,
             <<"3", "/", "5", "/", "2", "4">>, <<"9", ":", "0", "0", " ", "A", "M">>, <<"P", "S", "T">>),
      \* start and end on one day, the end time before the start time
      RawRow(<<"B">>, <<"S", "3">>, <<"0", "3", "/", "0", "5", "/", "2", "0", "2", "4">>, <<"1", "7", ":", "0", "0">>,
             <<"0", "3", "/", "0", "5", "/", "2", "0", "2", "4">>, <<"0", "9", ":", "0", "0">>, <<>>),
      \* start and end on one day, no end time; no serial
      RawRow(<<"B">>, <<>>, <<"0", "3", "/", "0", "5", "/", "2", "0", "2", "4">>, <<"0", "9", ":", "0", "0">>,
             <<"0", "3", "/", "0", "5", "/", "2", "0", "2", "4">>, <<>>, <<"-", "0", "8", ":", "0", "0">>),
      \* a date in no accepted format, a date that is no calendar day, a bad time
      RawRow(<<"A">>, <<"S", "2">>, <<"M", "a", "r", "c", "h", " ", "5">>, <<>>, <<>>, <<>>, <<>>),
      RawRow(<<"A">>, <<"S", "3">>, <<"0", "3", "/", "0", "5", "/", "2", "0", "2", "4">>, <<>>,
             <<"0", "2", "/", "3", "0", "/", "2", "0", "2", "4">>, <<>>, <<>>),
      RawRow(<<"B">>, <<"S", "1">>, <<"0", "3", "/", "0", "5", "/", "2", "0", "2", "4">>, <<"2", "5", ":", "0", "0">>, <<>>, <<>>, <<>>),
      \* a blank line
      RawRow(<<>>, <<>>, <<>>, <<>>, <<>>, <<>>, <<>>) }

\* line 131: a fully blank line
IsBlankRaw(r) == \A k \in DOMAIN r : StripChars(r[k]) = <<>>

\* lines 134-203 for one row that is not blank: the record written, or Raised
DeploymentRecord(id, serial, start, end) ==
    [deploymentID |-> id, cameraID |-> serial, deploymentStart |-> start, deploymentEnd |-> end]

BuildRow(r, end_header, tz_hint) ==
    LET siteID   == StripChars(r.siteID)
        serial   == StripChars(r.cameraSerial)
        start_d  == parse_date(r.startLocal)
        end_d    == parse_date(r.endLocal)
        start_t  == parse_time(r.StartTime)
        end_t    == IF end_header /= <<>> THEN parse_time(r.EndTime) ELSE NoValue
        offset   == normalize_offset(r.offset, tz_hint, <<"E", "S", "T">>)
        start_dt == combine_dt(start_d, start_t, FALSE)
        end_dt   == combine_dt(end_d, end_t, TRUE)
    IN  IF start_d = Raised \/ end_d = Raised \/ start_t = Raised \/ end_t = Raised
        THEN Raised
        ELSE DeploymentRecord(StripUnderscores(siteID \o <<"_">> \o serial), serial,
                              iso_with_offset(start_dt, offset),
                              iso_with_offset(end_dt, offset))

InitBuild ==
    /\ raw_file = <<>>
    /\ bpc = "idle"
    /\ bi = 0
    /\ end_time_header = <<>>
    /\ tz_hint_from_header = <<>>
    /\ dep_out = <<>>
    /\ exit_status = NoExit

\* the field sheet gets one more row
AddRawRow ==
    /\ bpc = "idle"
    /\ Len(raw_file) < MaxRawRows
    /\ \E r \in RawRows : raw_file' = Append(raw_file, r)
    /\ UNCHANGED <<bpc, bi, end_time_header, tz_hint_from_header, dep_out, exit_status>>
    /\ UNCHANGED <<mergeVars, linkVars, rerunVars, timeVars, genVars, pipeVars>>

\* lines 89-93: raw_deployment.csv is not there
BuildNoInput ==
    /\ bpc = "idle"
    /\ raw_file = <<>>
    /\ bpc' = "nofile"
    /\ exit_status' = 0
    /\ UNCHANGED <<raw_file, bi, end_time_header, tz_hint_from_header, dep_out>>
    /\ UNCHANGED <<mergeVars, linkVars, rerunVars, timeVars, genVars, pipeVars>>

\* lines 95-128: open the files, scan the header, write the header row
BuildStart ==
    /\ bpc = "idle"
    /\ \E h \in EndHeaders :
          LET found == FindEndTimeHeader(Fieldnames(h))
          IN  /\ end_time_header' = found
              /\ tz_hint_from_header' = TzHintOf(found)
    /\ bpc' = "loop"
    /\ bi' = 1
    /\ dep_out' = <<>>
    /\ UNCHANGED <<raw_file, exit_status>>
    /\ UNCHANGED <<mergeVars, linkVars, rerunVars, timeVars, genVars, pipeVars>>

\* lines 129-203: one raw row; a ValueError of parse_date or parse_time is not caught
\* and ends the process with a traceback
BuildStep ==
    /\ bpc = "loop"
    /\ bi <= Len(raw_file)
    /\ LET r == raw_file[bi]
       IN  IF IsBlankRaw(r)
           THEN /\ bi' = bi + 1
                /\ UNCHANGED <<bpc, dep_out, exit_status>>
           ELSE LET rec == BuildRow(r, end_time_header, tz_hint_from_header)
                IN  IF rec = Raised
                    THEN /\ bpc' = "crashed"
                         /\ exit_status' = 1
                         /\ UNCHANGED <<bi, dep_out>>
                    ELSE /\ dep_out' = Append(dep_out, rec)
                         /\ bi' = bi + 1
                         /\ UNCHANGED <<bpc, exit_status>>
    /\ UNCHANGED <<raw_file, end_time_header, tz_hint_from_header>>
    /\ UNCHANGED <<mergeVars, linkVars, rerunVars, timeVars, genVars, pipeVars>>

\* line 205: the summary; main() returns
BuildFinish ==
    /\ bpc = "loop"
    /\ bi > Len(raw_file)
    /\ bpc' = "done"
    /\ exit_status' = 0
    /\ UNCHANGED <<raw_file, bi, end_time_header, tz_hint_from_header, dep_out>>
    /\ UNCHANGED <<mergeVars, linkVars, rerunVars, timeVars, genVars, pipeVars>>

----------------------------------------------------------------------------
(* Part VI: build_observations.py main().  Cells are sequences of characters. *)

\* s.split(sub)[0]: the text before the first occurrence of sub (all of it if none)
BeforeFirst(cs, sub) ==
    LET at == {i \in 1..(Len(cs) - Len(sub) + 1) : SubSeq(cs, i, i + Len(sub) - 1) = sub}
    IN  IF at = {} THEN cs
        ELSE SubSeq(cs, 1, (CHOOSE i \in at : \A k \in at : i <= k) - 1)

\* a row of media.csv, as far as the generator reads it
GenMediaRow(mid, dep, ts, exif) ==
    [mediaID |-> mid, deploymentID |-> dep, timestamp |-> ts, exifData |-> exif]

\* exifData cells: the kinds of Part II, with EventNumber and Sequence as Reconyx
\* cameras write them
GenExifCells ==
    { BlankExif, BadExif, ExifObject(EmptyMap),
      ExifObject([EventNumber |-> <<"1", "2">>]),
      ExifObject([Sequence |-> <<"1", " ", "o", "f", " ", "3">>]),
      ExifObject([Sequence |-> <<"b", "u", "r", "s", "t">>]),
      ExifArray(0), ExifArray(2) }

GenMediaRows ==
    { GenMediaRow(mid, dep, ts, x) :
        mid \in {<<>>, <<"m", "1">>, <<" ", "m", "2">>},
        dep \in {<<>>, <<"A", "_", "S", "1">>},
        ts  \in {<<>>, <<"T", "3">>},
        x   \in GenExifCells }

\* line 78: a totally blank line
IsBlankGenRow(r) ==
    /\ StripChars(r.mediaID) = <<>> /\ StripChars(r.deploymentID) = <<>>
    /\ StripChars(r.timestamp) = <<>> /\ r.exifData.kind = "blank"

\* line 87: the row has the essentials
HasEssentials(r) ==
    /\ StripChars(r.mediaID) /= <<>>
    /\ StripChars(r.deploymentID) /= <<>>
    /\ StripChars(r.timestamp) /= <<>>

\* exif_to_event_id (lines 13-39): line 31 raises AttributeError when json.loads
\* returned a list, which has no get()
EventIdRaises(r) ==
    r.exifData.kind = "array" /\ StripChars(r.deploymentID) /= <<>>

exif_to_event_id(r) ==
    LET dep == StripChars(r.deploymentID)
        md  == IF r.exifData.kind = "object" THEN r.exifData.md ELSE EmptyMap
        evn == IF "EventNumber" \in DOMAIN md THEN md.EventNumber ELSE <<>>
        seq == IF "Sequence" \in DOMAIN md THEN StripChars(md.Sequence) ELSE <<>>
        first == StripChars(BeforeFirst(seq, <<"o", "f">>))
    IN  IF r.exifData.kind \in {"blank", "unparseable"} THEN <<>>
        ELSE IF dep = <<>> THEN <<>>
        ELSE IF AllDigits(StripChars(evn)) THEN dep \o <<"_", "e", "v">> \o StripChars(evn)
        ELSE IF seq /= <<>> /\ Contains(seq, <<"o", "f">>) /\ AllDigits(first)
        THEN dep \o <<"_", "e", "v">> \o first
        ELSE <<>>

\* uuid4().hex[:8]: the identifiers a run can draw (two draws can be equal)
ObsIds == {"o1", "o2"}

\* lines 97-128: the observation appended for a media row
GeneratedObservation(obs_id, r) ==
    FreshObservation(obs_id, StripChars(r.mediaID), StripChars(r.deploymentID))
    @@ [eventID |-> exif_to_event_id(r),
        eventStart |-> StripChars(r.timestamp), eventEnd |-> StripChars(r.timestamp),
        observationLevel |-> "media"]

InitGen ==
    /\ gen_media = <<>>
    /\ gpc = "idle"
    /\ gi = 0
    /\ gen_rows = <<>>
    /\ n_in = 0
    /\ obs_file = <<>>

\* media.csv gets one more row
AddGenRow ==
    /\ gpc = "idle"
    /\ Len(gen_media) < MaxGenRows
    /\ \E r \in GenMediaRows : gen_media' = Append(gen_media, r)
    /\ UNCHANGED <<gpc, gi, gen_rows, n_in, obs_file>>
    /\ UNCHANGED <<mergeVars, linkVars, rerunVars, timeVars, buildVars, pipeVars>>

\* lines 63-65: media.csv is not there
GenNoInput ==
    /\ gpc = "idle"
    /\ gen_media = <<>>
    /\ gpc' = "nofile"
    /\ UNCHANGED <<gen_media, gi, gen_rows, n_in, obs_file>>
    /\ UNCHANGED <<mergeVars, linkVars, rerunVars, timeVars, buildVars, pipeVars>>

\* lines 60-75: open media.csv
GenStart ==
    /\ gpc = "idle"
    /\ gpc' = "loop"
    /\ gi' = 1
    /\ gen_rows' = <<>>
    /\ n_in' = 0
    /\ UNCHANGED <<gen_media, obs_file>>
    /\ UNCHANGED <<mergeVars, linkVars, rerunVars, timeVars, buildVars, pipeVars>>

\* lines 76-128: one media row; an AttributeError of exif_to_event_id is not caught
\* and ends the process before observations.csv is written
GenStep ==
    /\ gpc = "loop"
    /\ gi <= Len(gen_media)
    /\ LET r == gen_media[gi]
       IN  IF IsBlankGenRow(r)
           THEN /\ gi' = gi + 1
                /\ UNCHANGED <<gpc, gen_rows, n_in>>
           ELSE IF ~HasEssentials(r)
           THEN /\ gi' = gi + 1
                /\ n_in' = n_in + 1
                /\ UNCHANGED <<gpc, gen_rows>>
           ELSE IF EventIdRaises(r)
           THEN /\ gpc' = "crashed"
                /\ n_in' = n_in + 1
                /\ gen_rows' = <<>>
                /\ UNCHANGED gi
           ELSE /\ \E obs_id \in ObsIds :
                      gen_rows' = Append(gen_rows, GeneratedObservation(obs_id, r))
                /\ gi' = gi + 1
                /\ n_in' = n_in + 1
                /\ UNCHANGED gpc
    /\ UNCHANGED <<gen_media, obs_file>>
    /\ UNCHANGED <<mergeVars, linkVars, rerunVars, timeVars, buildVars, pipeVars>>

\* lines 146-161: write observations.csv
GenFinish ==
    /\ gpc = "loop"
    /\ gi > Len(gen_media)
    /\ obs_file' = gen_rows
    /\ gpc' = "done"
    /\ UNCHANGED <<gen_media, gi, gen_rows, n_in>>
    /\ UNCHANGED <<mergeVars, linkVars, rerunVars, timeVars, buildVars, pipeVars>>

----------------------------------------------------------------------------
(* Part VII: run_all.py main().  A stage is an opaque child process with an exit   *)
(* status.                                                                          *)

\* the commands of build_steps() (lines 77-81) and the one of line 99
Commands == <<"extract", "deployments", "link", "observations">>

\* what preflight can find: EXIFTOOL_PATH unset, set to a file, or set to nothing that
\* exists; raw_deployment.csv and the data directory there or not
Envs == [exiftool : {"unset", "found", "missing"}, raw_dep : BOOLEAN, data : BOOLEAN]

\* preflight() (lines 42-63) calls die()
PreflightDies(e) == e.exiftool = "missing" \/ ~e.raw_dep \/ ~e.data

\* exit statuses of a child process
ReturnCodes == {0, 1, 2}

\* line 38: proc.returncode != 0
FailedOnlyOnOne(returncode) == returncode = 1

Failed(returncode) == returncode /= 0

InitPipe ==
    /\ ppc = "idle"
    /\ env = [exiftool |-> "unset", raw_dep |-> TRUE, data |-> TRUE]
    /\ step = 0
    /\ started = <<>>
    /\ outcomes = <<>>
    /\ media_linked = FALSE
    /\ promoted = FALSE
    /\ pipe_exit = NoExit
    /\ pipe_runs = 0

\* line 84: preflight(), in the environment run_all.py is started in; a
\* media_linked.csv of an earlier run may lie there
Preflight ==
    /\ ppc \in {"idle", "done", "died"}
    /\ pipe_runs < MaxPipeRuns
    /\ pipe_runs' = pipe_runs + 1
    /\ \E e \in Envs :
          /\ env' = e
          /\ started' = <<"preflight">>
          /\ promoted' = FALSE
          /\ IF PreflightDies(e)
             THEN /\ outcomes' = <<1>>
                  /\ ppc' = "died"
                  /\ pipe_exit' = 1
                  /\ step' = 0
             ELSE /\ outcomes' = <<0>>
                  /\ ppc' = "run"
                  /\ pipe_exit' = NoExit
                  /\ step' = 1
    /\ UNCHANGED media_linked
    /\ UNCHANGED <<mergeVars, linkVars, rerunVars, timeVars, buildVars, genVars>>

\* lines 36-37: run_or_die starts the child and waits for it
StartStage ==
    /\ ppc = "run"
    /\ started' = Append(started, Commands[step])
    /\ ppc' = "wait"
    /\ UNCHANGED <<env, step, outcomes, media_linked, promoted, pipe_exit, pipe_runs>>
    /\ UNCHANGED <<mergeVars, linkVars, rerunVars, timeVars, buildVars, genVars>>

\* lines 37-40: the child exits; the linker may have written media_linked.csv, whatever
\* its status
StageExits ==
    /\ ppc = "wait"
    /\ \E returncode \in ReturnCodes, wrote \in BOOLEAN :
          /\ outcomes' = Append(outcomes, returncode)
          /\ media_linked' = IF Commands[step] = "link" THEN (media_linked \/ wrote)
                              ELSE media_linked
          /\ IF Failed(returncode)
             THEN /\ ppc' = "died"
                  /\ pipe_exit' = returncode
                  /\ UNCHANGED step
             ELSE /\ ppc' = CASE Commands[step] = "link" -> "promote"
                              [] Commands[step] = "observations" -> "done"
                              [] OTHER -> "run"
                  /\ pipe_exit' = IF Commands[step] = "observations" THEN 0 ELSE pipe_exit
                  /\ step' = IF step < Len(Commands) THEN step + 1 ELSE step
    /\ UNCHANGED <<env, started, promoted, pipe_runs>>
    /\ UNCHANGED <<mergeVars, linkVars, rerunVars, timeVars, buildVars, genVars>>

\* lines 91-96: media_linked.csv becomes media.csv
Promote ==
    /\ ppc = "promote"
    /\ started' = Append(started, "promote")
    /\ IF media_linked
       THEN /\ promoted' = TRUE
            /\ outcomes' = Append(outcomes, 0)
            /\ ppc' = "run"
            /\ UNCHANGED pipe_exit
       ELSE /\ outcomes' = Append(outcomes, 1)
            /\ ppc' = "died"
            /\ pipe_exit' = 1
            /\ UNCHANGED promoted
    /\ UNCHANGED <<env, step, media_linked, pipe_runs>>
    /\ UNCHANGED <<mergeVars, linkVars, rerunVars, timeVars, buildVars, genVars>>

----------------------------------------------------------------------------
(* Specifications *)

Init == InitMerge /\ InitLink /\ InitRerun /\ InitTime /\ InitBuild /\ InitGen /\ InitPipe

\* merge_labels.py
Next == StartRun \/ HumanStep \/ LoadAI \/ IndexStep \/ AIStep \/ WriteOutput \/ Tick

Spec == Init /\ [][Next]_vars

\* link_media_by_serial.py
NextLink == LinkStart \/ LinkStep \/ LinkFinish

SpecLink == Init /\ [][NextLink]_vars

\* merge_labels.py, run after run on the same files
NextRerun == AddLabelRow \/ AddDetectionRow \/ RerunMerge

SpecRerun == Init /\ [][NextRerun]_vars

\* build_deployments.py, the time functions
NextTime == Normalize \/ Renormalize

SpecTime == Init /\ [][NextTime]_vars

\* build_deployments.py
NextBuild == AddRawRow \/ BuildNoInput \/ BuildStart \/ BuildStep \/ BuildFinish

SpecBuild == Init /\ [][NextBuild]_vars

\* build_observations.py
NextGen == AddGenRow \/ GenNoInput \/ GenStart \/ GenStep \/ GenFinish

SpecGen == Init /\ [][NextGen]_vars

\* run_all.py
NextPipe == Preflight \/ StartStage \/ StageExits \/ Promote

SpecPipe == Init /\ [][NextPipe]_vars

----------------------------------------------------------------------------
(* Properties of merge_labels.py, checked under Spec *)

\* a step of the AI pass (index building or one observation row) that does not crash
AIPassStep == mpc = "ai" /\ mpc' = "ai"

\* the iteration of the label loop on row lab'
LabelStep == mpc = "human" /\ labLeft' = labLeft - 1

\* the iteration of the observation loop on obs_rows[j]
ObsStep == mpc = "ai" /\ aiLeft = 0 /\ j' = j + 1

\* the detection the index holds for an observation, and whether it passes the threshold
DetectionFor(obs) == ai_by_media[obs.mediaID]
HasConfidentDetection(obs) ==
    /\ obs.mediaID \in AllMediaIDs
    /\ DetectionFor(obs) /= NoRow
    /\ LET p == DetectionFor(obs).classificationProbability
       IN  (IF p \in {"0.5000", "0.7", "0.9000"} THEN FloatVal(p) ELSE 0) >= ai_threshold

\* C1: an observation that is "human" when the AI-merge pass reaches it keeps every
\* field, whatever the detection, its probability and the threshold.
C1_AIPassKeepsHumanRows ==
    [][AIPassStep =>
          \A i \in DOMAIN obs_rows :
              obs_rows[i].classificationMethod = "human" => obs_rows'[i] = obs_rows[i]]_vars

\* C1 witness: the AI loop has passed a human-classified observation that has a
\* detection at or above the threshold.
C1_Witness ==
    /\ mpc = "ai" /\ aiLeft = 0 /\ j = 2
    /\ obs_rows[1].classificationMethod = "human"
    /\ HasConfidentDetection(obs_rows[1])
    /\ obs_rows[1].scientificName = "" /\ DetectionFor(obs_rows[1]).scientificName /= ""
    /\ skipped_human_override = 1

\* C2: classificationMethod only moves forward, in memory and in observations.csv:
\* UNSET -> MACHINE, UNSET|MACHINE -> HUMAN, MACHINE -> MACHINE, or no change.
ForwardOnly(a, b) ==
    \/ a = b
    \/ a = "" /\ b \in {"machine learning", "human"}
    \/ a = "machine learning" /\ b = "human"

C2_MethodMovesForward ==
    [][/\ \A i \in DOMAIN obs_rows \cap DOMAIN obs_rows' :
             ForwardOnly(obs_rows[i].classificationMethod, obs_rows'[i].classificationMethod)
       /\ \A i \in DOMAIN observations :
             ForwardOnly(observations[i].classificationMethod,
                         observations'[i].classificationMethod)
       /\ \A i \in DOMAIN obs_rows' :
             obs_rows'[i].classificationMethod \in {"", "machine learning", "human"}]_vars

\* C2 witness: an observation that went UNSET -> MACHINE in an earlier run has been
\* made HUMAN by a label row of this run.
C2_Witness ==
    /\ mpc = "human"
    /\ observations[1].classificationMethod = "machine learning"
    /\ obs_rows[1].classificationMethod = "human"

\* the value a label row proposes for a column fails the column's constraint
InvalidValue(k, v) ==
    \/ k = "observationType" /\ v \notin {"animal", "human", "vehicle", "blank", "unknown",
                                          "unclassified"}
    \/ k = "lifeStage" /\ v \notin {"adult", "subadult", "juvenile"}
    \/ k = "sex" /\ v \notin {"female", "male"}
    \/ k = "count" /\ v \notin {"1", "2"}

\* the observation row a label row is keyed to, 0 if none
TargetOf(l) ==
    IF \E i \in DOMAIN obs_rows : obs_rows[i].observationID = l.observationID
    THEN CHOOSE i \in DOMAIN obs_rows : obs_rows[i].observationID = l.observationID
    ELSE 0

StagedColumns(obs, l) == {k \in EDITABLE : StagesChange(obs, l, k)}
HasInvalidStagedChange(obs, l) ==
    \E k \in StagedColumns(obs, l) : InvalidValue(k, Strip(l[k]))

\* C3: a label row with one invalid staged change changes nothing, stamps nothing
\* and is not counted; the label loop goes on to the next row.
C3_InvalidRowRejectedWhole ==
    [][(/\ LabelStep
        /\ TargetOf(lab') /= 0
        /\ HasInvalidStagedChange(obs_rows[TargetOf(lab')], lab'))
       => /\ obs_rows' = obs_rows
          /\ updated_human' = updated_human
          /\ mpc' = "human"]_vars

\* C3 witness: a row with a valid staged change next to an invalid one has just been
\* rejected, and the labels file has a row left.
C3_Witness ==
    /\ mpc = "human" /\ labLeft = 1 /\ lab /= NoLabel
    /\ TargetOf(lab) = 1
    /\ HasInvalidStagedChange(obs_rows[1], lab)
    /\ \E k \in StagedColumns(obs_rows[1], lab) : ~InvalidValue(k, Strip(lab[k]))
    /\ updated_human = 0

\* C8 as stated: an AI pass on a MACHINE observation with a detection at or above the
\* threshold writes the detection's own observationType, scientificName, classifiedBy
\* and classificationProbability and a fresh classificationTimestamp.
C8_Original ==
    [][(/\ ObsStep
        /\ obs_rows[j].classificationMethod = "machine learning"
        /\ HasConfidentDetection(obs_rows[j]))
       => LET det == DetectionFor(obs_rows[j])
          IN  /\ obs_rows'[j].observationType = det.observationType
              /\ obs_rows'[j].scientificName = det.scientificName
              /\ obs_rows'[j].classifiedBy = det.classifiedBy
              /\ obs_rows'[j].classificationProbability = det.classificationProbability
              /\ obs_rows'[j].classificationTimestamp = now]_vars

\* C8 amended: as C8, with the detection's observationType written as "unknown" when
\* it is empty or outside the enum, and classifiedBy written as the BioCLIP tag when
\* the detection has none.
C8_MachineRowOverwritten ==
    [][(/\ ObsStep
        /\ obs_rows[j].classificationMethod = "machine learning"
        /\ HasConfidentDetection(obs_rows[j]))
       => LET det == DetectionFor(obs_rows[j])
          IN  /\ obs_rows'[j].observationType =
                    (IF det.observationType \in {"animal", "human", "vehicle", "blank",
                                                  "unknown", "unclassified"}
                     THEN det.observationType ELSE "unknown")
              /\ obs_rows'[j].scientificName = det.scientificName
              /\ obs_rows'[j].classifiedBy =
                    (IF det.classifiedBy = "" THEN "BioCLIP-2 zero-shot (multi-prompt)"
                     ELSE det.classifiedBy)
              /\ obs_rows'[j].classificationProbability = det.classificationProbability
              /\ obs_rows'[j].classificationTimestamp = now
              /\ obs_rows'[j].classificationMethod = "machine learning"
              /\ updated_ai' = updated_ai + 1]_vars

\* C8 witness: a MACHINE observation with non-empty fields from an earlier run has
\* had them replaced by this run's detection, at a later second.
C8_Witness ==
    /\ mpc = "ai" /\ aiLeft = 0 /\ j = 2 /\ updated_ai = 1
    /\ observations[1].classificationMethod = "machine learning"
    /\ observations[1].classifiedBy /= "" /\ observations[1].classificationProbability /= ""
    /\ obs_rows[1].observationType /= observations[1].observationType
    /\ obs_rows[1].classifiedBy /= observations[1].classifiedBy
    /\ obs_rows[1].classificationProbability /= observations[1].classificationProbability
    /\ obs_rows[1].classificationTimestamp > observations[1].classificationTimestamp
    /\ obs_rows[1].classificationTimestamp = now

\* C9: a label row applied with success to an UNSET or MACHINE observation makes it
\* "human" with a fresh timestamp, and sets classifiedBy to "human" only when it was
\* empty; a row that stages nothing leaves the observation as it was.
C9_HumanStamp ==
    [][(LabelStep /\ TargetOf(lab') /= 0)
       => LET i   == TargetOf(lab')
              old == obs_rows[i]
              new == obs_rows'[i]
          IN  /\ (/\ StagedColumns(old, lab') /= {}
                  /\ ~HasInvalidStagedChange(old, lab')
                  /\ old.classificationMethod \in {"", "machine learning"})
                 => /\ new.classificationMethod = "human"
                    /\ new.classificationTimestamp = now
                    /\ new.classifiedBy =
                          (IF old.classifiedBy = "" THEN "human" ELSE old.classifiedBy)
                    /\ updated_human' = updated_human + 1
              /\ StagedColumns(old, lab') = {}
                 => (obs_rows' = obs_rows /\ updated_human' = updated_human)]_vars

\* C9 witness: a MACHINE observation whose classifiedBy an AI fill left has been
\* labelled in this run and kept that classifiedBy.
C9_Witness ==
    /\ mpc = "human" /\ lab /= NoLabel /\ TargetOf(lab) = 1 /\ updated_human = 1
    /\ observations[1].classificationMethod = "machine learning"
    /\ observations[1].classifiedBy = AI_CLASSIFIED_BY
    /\ obs_rows[1].classificationMethod = "human"
    /\ obs_rows[1].classifiedBy = AI_CLASSIFIED_BY
    /\ obs_rows[1].classificationTimestamp = now
    /\ obs_rows[1].classificationTimestamp > observations[1].classificationTimestamp

\* the sentinel in any letter case, and the current values it is ignored over
IsSentinel(v) == v \in {"unclassified", "Unclassified"}
BlankOrSentinel(cur) == cur \in {"", "unclassified", "Unclassified"}
OnlyObservationType(l) == \A k \in EDITABLE \ {"observationType"} : l[k] \in {"", " "}

\* C19 as stated: over another type the sentinel, in any letter case, stages a change
\* to "unclassified".
C19_Original ==
    [][(LabelStep /\ TargetOf(lab') /= 0 /\ IsSentinel(lab'.observationType))
       => LET old == obs_rows[TargetOf(lab')]
              ch  == Changed(old, lab')
          IN  /\ BlankOrSentinel(old.observationType) => "observationType" \notin DOMAIN ch
              /\ ~BlankOrSentinel(old.observationType)
                 => ("observationType" \in DOMAIN ch /\ ch.observationType = "unclassified")
              /\ (BlankOrSentinel(old.observationType) /\ OnlyObservationType(lab'))
                 => (obs_rows' = obs_rows /\ updated_human' = updated_human)]_vars

\* C19 amended: over an empty or "unclassified" current value the sentinel stages
\* nothing, and a row with nothing else leaves the observation and the count alone;
\* over another type it stages the label's value as written, which is applied when
\* it is the lower-case "unclassified" and rejected with the row in another case.
C19_SentinelStaging ==
    [][(LabelStep /\ TargetOf(lab') /= 0 /\ IsSentinel(lab'.observationType))
       => LET i   == TargetOf(lab')
              old == obs_rows[i]
              ch  == Changed(old, lab')
          IN  /\ BlankOrSentinel(old.observationType) => "observationType" \notin DOMAIN ch
              /\ ~BlankOrSentinel(old.observationType)
                 => /\ "observationType" \in DOMAIN ch
                    /\ ch.observationType = lab'.observationType
                    /\ (lab'.observationType = "unclassified" /\ OnlyObservationType(lab'))
                       => (/\ obs_rows'[i].observationType = "unclassified"
                           /\ obs_rows'[i].classificationMethod = "human"
                           /\ updated_human' = updated_human + 1)
                    /\ lab'.observationType /= "unclassified"
                       => (obs_rows' = obs_rows /\ updated_human' = updated_human)
              /\ (BlankOrSentinel(old.observationType) /\ OnlyObservationType(lab'))
                 => (obs_rows' = obs_rows /\ updated_human' = updated_human)]_vars

\* C19 witness: an observation labelled "animal" by the row before has been set back
\* to "unclassified" by a sentinel row.
C19_Witness ==
    /\ mpc = "human" /\ lab /= NoLabel /\ TargetOf(lab) = 1
    /\ lab.observationType = "unclassified"
    /\ observations[1].observationType = "unclassified"
    /\ obs_rows[1].observationType = "unclassified"
    /\ obs_rows[1].count = "2"
    /\ obs_rows[1].classificationMethod = "human"
    /\ updated_human = 2

\* C19 witness for the ignored sentinel: a sentinel row over the template's
\* "unclassified" has been read and nothing was counted or stamped.
C19_WitnessIgnored ==
    /\ mpc = "human" /\ lab /= NoLabel /\ TargetOf(lab) = 1
    /\ IsSentinel(lab.observationType) /\ OnlyObservationType(lab)
    /\ obs_rows[1] = observations[1]
    /\ obs_rows[1].classificationMethod = ""
    /\ updated_human = 0 /\ labLeft = 1

\* C10: at the end of a run over the template's table (observations.csv as built), every observation without a
\* human edit that has a detection at or above the threshold carries the detection's
\* observationType, and AI-filled counts exactly those observations.
NeedsAiFill(i) ==
    /\ obs_rows[i].classificationMethod /= "human"
    /\ HasConfidentDetection(obs_rows[i])

C10_FreshRunAiFilled ==
    (mpc = "ai" /\ aiLeft = 0 /\ j > Len(obs_rows) /\ observations = TemplateTable)
    => /\ \A i \in DOMAIN obs_rows :
             NeedsAiFill(i) =>
                obs_rows[i].observationType =
                   (IF DetectionFor(obs_rows[i]).observationType = "bird" THEN "unknown"
                    ELSE DetectionFor(obs_rows[i]).observationType)
       /\ updated_ai = Cardinality({i \in DOMAIN obs_rows : NeedsAiFill(i)})

----------------------------------------------------------------------------
(* Properties of link_media_by_serial.py, checked under SpecLink *)

\* the iteration of the media loop on row'
MediaStep == lpc = "loop" /\ mediaLeft' = mediaLeft - 1

\* the media row may be re-resolved: its deploymentID is empty or a placeholder
Eligible(r) == r.deploymentID \in {"", "DEPLOY_000", "deploy_tmp"}

SerialOf(r) == get_serial_from_media_row(r, meta_idx)
CandidatesOf(r) == by_serial[SerialOf(r)]
Containing(r) ==
    {i \in 1..Len(CandidatesOf(r)) :
        /\ r.timestamp /= NoTime
        /\ (CandidatesOf(r)[i].start = NoTime \/ CandidatesOf(r)[i].start <= r.timestamp)
        /\ (CandidatesOf(r)[i].end = NoTime \/ r.timestamp <= CandidatesOf(r)[i].end)}

\* C4: with two or more candidates the Linker assigns exactly when one window
\* contains the timestamp; otherwise the deploymentID stays and ambiguous is counted.
C4_WindowDisambiguation ==
    [][(MediaStep /\ ~IsBlankLine(row') /\ Eligible(row') /\ Len(CandidatesOf(row')) >= 2)
       => IF Cardinality(Containing(row')) = 1
          THEN /\ written'.deploymentID =
                     CandidatesOf(row')[CHOOSE i \in Containing(row') : TRUE].deploymentID
               /\ linked' = linked + 1
               /\ warn_ambiguous' = warn_ambiguous
          ELSE /\ written'.deploymentID = row'.deploymentID
               /\ linked' = linked
               /\ warn_ambiguous' = warn_ambiguous + 1]_vars

\* C5: with exactly one candidate the Linker assigns it for any timestamp, inside
\* the window, outside it or absent, and counts the record as linked.
C5_SingleCandidateAssigned ==
    [][(MediaStep /\ ~IsBlankLine(row') /\ Eligible(row') /\ Len(CandidatesOf(row')) = 1)
       => /\ written'.deploymentID = CandidatesOf(row')[1].deploymentID
          /\ written'.timestamp = row'.timestamp
          /\ linked' = linked + 1]_vars

\* C5 witness: a placeholder row whose timestamp lies outside the only candidate's
\* window has been given that candidate's deploymentID.
C5_Witness ==
    /\ lpc = "loop" /\ row /= NoMedia /\ Eligible(row)
    /\ Len(CandidatesOf(row)) = 1
    /\ row.timestamp /= NoTime /\ Containing(row) = {}
    /\ written.deploymentID = "siteA_S1" /\ linked = 1

\* C5 witness for the absent timestamp
C5_WitnessNoTimestamp ==
    /\ lpc = "loop" /\ row /= NoMedia /\ Eligible(row)
    /\ Len(CandidatesOf(row)) = 1
    /\ row.timestamp = NoTime
    /\ written.deploymentID = "siteA_S1" /\ linked = 1

\* C6: a serial that is absent, or present with no candidate deployment, leaves the
\* deploymentID as it was and counts one missing-serial warning.
C6_MissingSerialCounted ==
    [][(MediaStep /\ ~IsBlankLine(row') /\ Eligible(row') /\ Len(CandidatesOf(row')) = 0)
       => /\ written'.deploymentID = row'.deploymentID
          /\ linked' = linked
          /\ warn_missing_serial' = warn_missing_serial + 1]_vars

Relinked(r) == LinkRow(r, by_serial, meta_idx).written

\* C12: a row the Linker wrote is not a blank line and is written unchanged by a run
\* on it with the same deployments (hence by every later run), so its deploymentID
\* changes at most once, in the first run.
C12_LinkIdempotent ==
    [][(MediaStep /\ ~IsBlankLine(row'))
       => /\ ~IsBlankLine(written')
          /\ Relinked(written') = written']_vars

\* C12 witness: a placeholder row has been linked to a deployment whose ID starts with
\* DEPLOY, so the next run resolves the written row again.
C12_Witness ==
    /\ lpc = "loop" /\ row /= NoMedia /\ row.deploymentID = ""
    /\ written.deploymentID = "DEPLOY_S1" /\ linked = 1
    /\ IsMissingOrPlaceholder(written.deploymentID)
    /\ LinkRow(written, by_serial, meta_idx).outcome = "linked"

----------------------------------------------------------------------------
(* Properties of repeated runs of merge_labels.py, checked under SpecRerun *)

\* an observation without its classificationTimestamp
WithoutTimestamp(obs) == [f \in DOMAIN obs \ {"classificationTimestamp"} |-> obs[f]]

\* C11: a second (or later) run on the table the run before produced, with the same
\* label rows, detections and threshold, leaves every field of every observation other
\* than classificationTimestamp as the run before left it.
C11_MergeIdempotent ==
    (re_runs >= 2 /\ ~re_crashed)
    => \A i \in DOMAIN re_table : WithoutTimestamp(re_table[i]) = WithoutTimestamp(re_prev[i])

\* the rows of the AI file for mediaID m, and the probability each counts with
DetectionsOf(m) == {i \in DOMAIN re_ai : re_ai[i].mediaID = m}
CountedProb(r) ==
    CASE r.classificationProbability = "0.9000" -> 90
      [] r.classificationProbability = "0.7"    -> 70
      [] r.classificationProbability = "0.5000" -> 50
      [] OTHER                                  -> 0
EarliestBest(m) ==
    CHOOSE i \in DetectionsOf(m) :
        \A k \in DetectionsOf(m) :
            \/ CountedProb(re_ai[k]) < CountedProb(re_ai[i])
            \/ CountedProb(re_ai[k]) = CountedProb(re_ai[i]) /\ i <= k

\* C20: building the index never fails, and for every mediaID of the AI file the index
\* holds the earliest row of maximum probability (missing or unparseable counting 0).
C20_BestDetectionIndex ==
    re_runs >= 1
    => /\ ~re_crashed
       /\ \A m \in AllMediaIDs :
             IF DetectionsOf(m) = {} THEN re_index[m] = NoRow
             ELSE re_index[m] = re_ai[EarliestBest(m)]

----------------------------------------------------------------------------
(* Properties of the time functions of build_deployments.py, checked under SpecTime *)

\* C13: a timestamp the functions wrote, given back as the date cell, comes out as
\* the same timestamp and not as an error.
C13_NormalizerIdempotent ==
    [][(tn_pc = "normalized" /\ tn_pc' = "renormalized")
       => (tn_out'.kind = "text" /\ tn_out'.text = tn_out.text)]_vars

\* the abbreviations among the hints and defaults used, and their offsets
AbbrOffset(h) ==
    CASE h = <<"E", "S", "T">> -> <<"-", "0", "5", ":", "0", "0">>
      [] h = <<"p", "d", "t">> -> <<"-", "0", "7", ":", "0", "0">>
      [] h = <<"c", "s", "t">> -> <<"-", "0", "6", ":", "0", "0">>
      [] OTHER -> <<>>
KnownAbbr(h) == AbbrOffset(h) /= <<>>
BlankCell(v) == v \in {<<>>, <<" ">>}

\* C14: a non-blank offset cell decides the offset whatever the hint and the default;
\* else a hint of the table; else a default of the table; else "Z".
C14_OffsetPrecedence ==
    tn_pc = "normalized"
    => IF ~BlankCell(tn_val)
       THEN \A h \in HeaderHints, d \in DefaultHints :
               normalize_offset(tn_val, h, d) = tn_offset
       ELSE IF KnownAbbr(tn_hint) THEN tn_offset = AbbrOffset(tn_hint)
       ELSE IF KnownAbbr(tn_default) THEN tn_offset = AbbrOffset(tn_default)
       ELSE tn_offset = <<"Z">>

\* C14 witness: with a blank offset cell, a header hint that is not in the table has
\* been passed over for the default.
C14_Witness ==
    /\ tn_pc = "normalized"
    /\ tn_val = <<" ">>
    /\ tn_hint = <<"(", "l", "o", "c", "a", "l", ")">>
    /\ tn_default = <<"c", "s", "t">>
    /\ tn_offset = <<"-", "0", "6", ":", "0", "0">>

\* C14 witnesses for the first and the last rung
C14_WitnessExplicit ==
    /\ tn_pc = "normalized"
    /\ tn_val = <<"-", "0", "8", ":", "0", "0">> /\ tn_hint = <<"E", "S", "T">>
    /\ tn_offset = <<"-", "0", "8", ":", "0", "0">>

C14_WitnessUTC ==
    /\ tn_pc = "normalized"
    /\ tn_val = <<>> /\ tn_hint = <<>> /\ tn_default = <<"X", "Y", "Z">>
    /\ tn_offset = <<"Z">>

----------------------------------------------------------------------------
(* Properties of build_deployments.py main(), checked under SpecBuild *)

\* year, month, day, hour, minute, second of a written timestamp, and their order
Stamp(cs) ==
    <<NumVal(SubSeq(cs, 1, 4)), NumVal(SubSeq(cs, 6, 7)), NumVal(SubSeq(cs, 9, 10)),
      NumVal(SubSeq(cs, 12, 13)), NumVal(SubSeq(cs, 15, 16)), NumVal(SubSeq(cs, 18, 19))>>
NotAfter(a, b) ==
    \/ a = b
    \/ \E k \in 1..6 : a[k] < b[k] /\ \A m \in 1..(k - 1) : a[m] = b[m]

\* C15: every record written with both deploymentStart and deploymentEnd has
\* deploymentStart <= deploymentEnd (both carry the row's one offset).
C15_StartNotAfterEnd ==
    \A i \in DOMAIN dep_out :
        (dep_out[i].deploymentStart /= <<>> /\ dep_out[i].deploymentEnd /= <<>>)
        => NotAfter(Stamp(dep_out[i].deploymentStart), Stamp(dep_out[i].deploymentEnd))

\* C16: no two rows of deployments.csv written by one run have the same deploymentID.
C16_DeploymentIdsUnique ==
    \A i, k \in DOMAIN dep_out :
        i /= k => dep_out[i].deploymentID /= dep_out[k].deploymentID

\* the raw rows that are not blank and whose dates and times are in an accepted format
UnparseableDates == { <<"M", "a", "r", "c", "h", " ", "5">>,
                      <<"0", "2", "/", "3", "0", "/", "2", "0", "2", "4">> }
UnparseableTimes == { <<"2", "5", ":", "0", "0">> }
IsParseableRaw(r) ==
    /\ \E k \in DOMAIN r : r[k] /= <<>>
    /\ r.startLocal \notin UnparseableDates /\ r.endLocal \notin UnparseableDates
    /\ r.StartTime \notin UnparseableTimes /\ r.EndTime \notin UnparseableTimes
ExpectedId(r) ==
    IF r.cameraSerial = <<>> THEN r.siteID ELSE r.siteID \o <<"_">> \o r.cameraSerial

\* C17: when the run has ended, it ended normally and deployments.csv has one record
\* for every raw row that is not blank and parses, in the order of the sheet, whatever
\* unparseable rows stand before or after them.
C17_BadRowSkippedAlone ==
    bpc \in {"done", "crashed"}
    => /\ bpc = "done"
       /\ LET good == SelectSeq(raw_file, IsParseableRaw)
          IN  /\ Len(dep_out) = Len(good)
              /\ \A k \in DOMAIN dep_out : dep_out[k].deploymentID = ExpectedId(good[k])

\* C18: the stage exits non-zero exactly when its required input is missing.
C18_ExitStatus ==
    exit_status /= NoExit => (exit_status /= 0 <=> bpc = "nofile")

----------------------------------------------------------------------------
(* Further properties of merge_labels.py, checked under Spec *)

\* what the iteration on obs_rows[j] added to each counter
AddedMissing == missing_ai' - missing_ai
AddedLowConf == skipped_lowconf' - skipped_lowconf
AddedHuman == skipped_human_override' - skipped_human_override
AddedFilled == updated_ai' - updated_ai

\* the probability of the detection of an observation, as a number of hundredths
DetectionProb(obs) ==
    LET p == DetectionFor(obs).classificationProbability
    IN  CASE p = "0.9000" -> 90 [] p = "0.7" -> 70 [] p = "0.5000" -> 50 [] OTHER -> 0

\* C21: an iteration of the AI pass on an observation with a mediaID adds one to at
\* most one of the four counters; the reasons are tested in the order unmatched,
\* low-confidence (probability strictly below the threshold), human-override; and a
\* skipped observation keeps every field.
C21_SkipOrder ==
    [][(ObsStep /\ obs_rows[j].mediaID /= "") =>
          LET o == obs_rows[j]
              unmatched == DetectionFor(o) = NoRow
              low == ~unmatched /\ DetectionProb(o) < ai_threshold
              human == o.classificationMethod \notin {"", AI_METHOD}
          IN  /\ {AddedMissing, AddedLowConf, AddedHuman, AddedFilled} \subseteq {0, 1}
              /\ AddedMissing + AddedLowConf + AddedHuman + AddedFilled <= 1
              /\ AddedMissing = 1 <=> unmatched
              /\ AddedLowConf = 1 <=> low
              /\ AddedHuman = 1 <=> (~unmatched /\ ~low /\ human)
              /\ AddedFilled = 1 => (~unmatched /\ ~low /\ ~human)
              /\ AddedMissing + AddedLowConf + AddedHuman = 1 => obs_rows' = obs_rows
              /\ (~unmatched /\ DetectionProb(o) = ai_threshold) => AddedLowConf = 0]_vars

\* C21 witness: a human-classified observation whose detection lies below the threshold
\* has been counted as low-confidence and not as human override.
C21_Witness ==
    /\ mpc = "ai" /\ aiLeft = 0 /\ j = 2
    /\ obs_rows[1].classificationMethod = "human"
    /\ DetectionFor(obs_rows[1]) /= NoRow
    /\ DetectionProb(obs_rows[1]) < ai_threshold
    /\ skipped_lowconf = 1 /\ skipped_human_override = 0

\* C21 witness for the boundary: a detection whose probability equals the threshold has
\* been applied.
C21_WitnessAtThreshold ==
    /\ mpc = "ai" /\ aiLeft = 0 /\ j = 2
    /\ DetectionFor(obs_rows[1]) /= NoRow
    /\ DetectionProb(obs_rows[1]) = 70 /\ ai_threshold = 70
    /\ obs_rows[1].classificationMethod = AI_METHOD
    /\ skipped_lowconf = 0

\* the columns the AI pass has no assignment to
NotAIWritten ==
    {"observationID", "deploymentID", "mediaID",
     "count", "lifeStage", "sex", "behavior", "observationComments"}

\* C22: a step of the AI pass (index building or one observation) keeps the number of
\* observations and, in every observation, the identifiers and count, lifeStage, sex,
\* behavior and observationComments.
C22_AIPassFrame ==
    [][AIPassStep =>
          /\ DOMAIN obs_rows' = DOMAIN obs_rows
          /\ \A i \in DOMAIN obs_rows : \A f \in NotAIWritten :
                 obs_rows'[i][f] = obs_rows[i][f]]_vars

\* C22 witness: the AI pass has filled an observation from its detection, and the
\* columns it does not write are as the template generator left them.
C22_Witness ==
    /\ mpc = "ai" /\ aiLeft = 0 /\ j = 2
    /\ updated_ai = 1
    /\ obs_rows[1].classificationMethod = AI_METHOD
    /\ obs_rows[1].observationType = "animal"
    /\ obs_rows[1].scientificName /= ""
    /\ \A f \in NotAIWritten : obs_rows[1][f] = TemplateTable[1][f]

\* C22 witness for human-origin columns: an observation with a human count has been
\* passed by the AI pass with a detection at or above the threshold.
C22_WitnessHumanCount ==
    /\ mpc = "ai" /\ aiLeft = 0 /\ j = 2
    /\ obs_rows[1].count = "2"
    /\ HasConfidentDetection(obs_rows[1])

----------------------------------------------------------------------------
(* Further properties of link_media_by_serial.py, checked under SpecLink *)

\* the Linker has taken row' from media.csv (whether or not it got to write it)
MediaRead == lpc = "loop" /\ total' = total + 1

\* an exifData cell that is not a JSON object with string values
Malformed(x) == x.kind \in {"unparseable", "array", "number serial"}

\* C23: a row with a malformed EXIF payload, a missing or placeholder deploymentID
\* and no entry in media_metadata.json does not end the run, is written as it was
\* read and adds one to the missing-serial counter.
C23_MalformedExifNoSerial ==
    [][(/\ MediaRead
        /\ Malformed(row'.exifData)
        /\ IsMissingOrPlaceholder(row'.deploymentID)
        /\ row'.filePath \notin DOMAIN meta_idx)
       => /\ lpc' /= "crashed"
          /\ written' = row'
          /\ warn_missing_serial' = warn_missing_serial + 1]_vars

----------------------------------------------------------------------------
(* Further properties of build_deployments.py, checked under SpecTime *)

\* an offset cell that is not blank and is none of "Z", sign-HH:MM, a known abbreviation
Unrecognised(val) ==
    LET v == Upper(StripChars(val))
    IN  /\ v /= <<>>
        /\ v /= <<"Z">>
        /\ ~IsNumericOffset(v)
        /\ v \notin DOMAIN TZ_ABBR_TO_OFFSET

\* the cells of the row are normalized and the date and time cells are readable
NormalizedReadable ==
    /\ tn_pc = "normalized"
    /\ parse_date(tn_date) /= Raised
    /\ parse_time(tn_time) /= Raised

\* C24 as stated: an unrecognised offset cell is the offset, character for character,
\* and the row does not fail for it.
C24_Original ==
    (tn_pc = "normalized" /\ Unrecognised(tn_val)) =>
        /\ tn_offset = tn_val
        /\ NormalizedReadable => tn_out /= Raised

\* C24 amended: an unrecognised offset cell is the offset with the blanks around it
\* removed and its letters in upper case, and the row does not fail for it.
C24_UnrecognisedOffset ==
    (tn_pc = "normalized" /\ Unrecognised(tn_val)) =>
        /\ tn_offset = Upper(StripChars(tn_val))
        /\ NormalizedReadable => tn_out /= Raised

\* C24 witness: the cell "Local" has become the offset "LOCAL" of a written timestamp.
C24_Witness ==
    /\ NormalizedReadable
    /\ tn_val = <<"L", "o", "c", "a", "l">>
    /\ tn_offset = <<"L", "O", "C", "A", "L">>
    /\ tn_out.kind = "text" /\ tn_out.text /= <<>>

\* C24 witness for an unrecognised cell that is written as supplied
C24_WitnessVerbatim ==
    /\ NormalizedReadable
    /\ tn_val = <<"+", "0", "5", "3", "0">>
    /\ tn_offset = tn_val
    /\ tn_out.kind = "text" /\ tn_out.text /= <<>>

----------------------------------------------------------------------------
(* Properties of build_observations.py, checked under SpecGen *)

\* the media rows that have mediaID, deploymentID and timestamp, in file order
WithEssentials(rows) == SelectSeq(rows, HasEssentials)

\* an observation as created: UNSET, "unclassified", nothing else filled in
IsUnset(o) ==
    /\ o.classificationMethod = "" /\ o.observationType = "unclassified"
    /\ o.scientificName = "" /\ o.count = "" /\ o.lifeStage = "" /\ o.sex = ""
    /\ o.behavior = "" /\ o.observationComments = ""
    /\ o.classifiedBy = "" /\ o.classificationTimestamp = NoTimestamp
    /\ o.classificationProbability = ""

\* observations.csv has one UNSET observation per eligible row of media, in order
OnePerEligibleRow(media) ==
    LET e == WithEssentials(media)
    IN  /\ Len(obs_file) = Len(e)
        /\ \A k \in DOMAIN obs_file :
              /\ obs_file[k].mediaID = StripChars(e[k].mediaID)
              /\ obs_file[k].deploymentID = StripChars(e[k].deploymentID)
              /\ obs_file[k].eventStart = StripChars(e[k].timestamp)
              /\ IsUnset(obs_file[k])

\* C25: when a run of the generator has ended, observations.csv holds exactly one
\* observation, in UNSET state, for each media row with mediaID, deploymentID and
\* timestamp, and none for any other row.
C25_OnePerMediaRow ==
    gpc \in {"done", "crashed"} => OnePerEligibleRow(gen_media)

----------------------------------------------------------------------------
(* Properties of run_all.py, checked under SpecPipe *)

\* the stages of the pipeline, in the order stated
StageOrder == <<"preflight", "extract", "deployments", "link", "promote", "observations">>

\* C26: in every state of a run of run_all.py the stages started so far are the first
\* stages of the stated order; every stage before a started one has finished with
\* status 0; once a stage has finished non-zero (a die() of preflight or of the
\* promotion included) the run has ended with a non-zero exit status, and it ends
\* with status 0 only after all six stages.
C26_StagesInOrder ==
    /\ Len(started) <= Len(StageOrder)
    /\ \A k \in DOMAIN started : started[k] = StageOrder[k]
    /\ Len(outcomes) \in {Len(started), Len(started) - 1}
    /\ \A k \in DOMAIN started : \A m \in 1..(k - 1) : outcomes[m] = 0
    /\ (\E m \in DOMAIN outcomes : outcomes[m] /= 0)
          => (ppc = "died" /\ pipe_exit /= 0 /\ pipe_exit /= NoExit)
    /\ pipe_exit = 0
          => (started = StageOrder /\ \A m \in DOMAIN outcomes : outcomes[m] = 0)
    /\ promoted => (media_linked /\ Len(started) >= 5)

\* C26 witness: the linker exited with status 2; the run ended there with status 2 and
\* neither the promotion nor build_observations.py was started.
C26_Witness ==
    /\ ppc = "died"
    /\ started = <<"preflight", "extract", "deployments", "link">>
    /\ outcomes = <<0, 0, 0, 2>>
    /\ pipe_exit = 2
    /\ ~promoted

\* C26 witness for the missing media_linked.csv
C26_WitnessNotLinked ==
    /\ ppc = "died"
    /\ started = <<"preflight", "extract", "deployments", "link", "promote">>
    /\ ~media_linked
    /\ pipe_exit = 1

\* C26 witness for a complete run
C26_WitnessComplete ==
    /\ ppc = "done"
    /\ started = StageOrder
    /\ pipe_exit = 0
    /\ promoted


====
